---- MODULE Spec2Model ----
(***************************************************************************)
(* A model of the todo-management backend: the user, todo and file tables, *)
(* the upload directory, and the request handlers of routes/todos.ts,      *)
(* routes/files.ts and routes/users.ts.  A handler that awaits more than   *)
(* one database call is split at its awaits, so that handlers of other     *)
(* requests can run in between.                                            *)
(***************************************************************************)
EXTENDS Integers, Sequences, FiniteSets, TLC

\* ------------------------------------------------------------------ bounds
MaxTodos == 2
MaxFiles == 2
MaxOrder == 1
MaxProcs == 2

\* ------------------------------------------------------------ value spaces
\* The three accounts of the seed script; "ghost" is an id no user row has.
UserIds == {"admin", "john", "jane"}
GhostUser == "ghost"
TodoIds == 1..MaxTodos
\* An id that no todo row ever has (ids are generated by the database).
GhostTodo == 0
FileIds == 1..MaxFiles
\* An id that no file row ever has.
GhostFile == 0
Orders == 0..MaxOrder
Procs == 1..MaxProcs

NoUser == [exists |-> FALSE]
NoTodo == [exists |-> FALSE]
NoFile == [exists |-> FALSE]
\* undefined: a missing query parameter or body field of string type
Absent == "absent"
\* null in a nullable column of date type
Null == "null"
\* null in a nullable text column (no character is spelled like this)
NullStr == <<"NULL">>
TodoStatuses == {"PENDING", "IN_PROGRESS", "COMPLETED"}
\* Column defaults of the todo table (todo.create passes neither column).
DefaultOrder == 0
DefaultStatus == "PENDING"
\* upload.array('files', 5)
MaxUploadCount == 5

VARIABLES
    users,      \* user table: id -> row
    todos,      \* todo table: id -> row
    files,      \* file table: id -> row
    storage,    \* names of the objects in the upload directory
    nextTodo,   \* number of todo rows created so far (ids are never reused)
    nextFile,   \* number of uploaded files so far
    req,        \* per connection: the request being handled, or its response
    client      \* the browser: localStorage, the auth context, its pending calls

vars == <<users, todos, files, storage, nextTodo, nextFile, req, client>>

Idle == [op |-> "none", pc |-> "idle"]

\* The browser before the page is loaded: an empty localStorage, and the
\* AuthProvider's useState(null) and useState(true).
FreshPage ==
    [token |-> Absent, storedUser |-> Absent, ctxUser |-> Null, loading |-> TRUE,
     initAuth |-> "mount", sentToken |-> Absent, call |-> "none", leaving |-> FALSE]

\* ----------------------------------------------------------------- strings
\* A string is a sequence of characters; only these letters have two cases.
ToLower(c) == CASE c = "A" -> "a" [] c = "B" -> "b" [] OTHER -> c

LowerStr(s) == [i \in 1..Len(s) |-> ToLower(s[i])]

\* Prisma { contains: sub, mode: 'insensitive' }; a null column matches nothing.
ContainsInsensitive(s, sub) ==
    /\ s # NullStr
    /\ \E i \in 0..(Len(s) - Len(sub)) :
          SubSeq(LowerStr(s), i + 1, i + Len(sub)) = LowerStr(sub)

\* ------------------------------------------------------------ table lookups
UserRow(u) == IF u \in UserIds THEN users[u] ELSE NoUser
TodoRow(t) == IF t \in TodoIds THEN todos[t] ELSE NoTodo
FileRow(f) == IF f \in FileIds THEN files[f] ELSE NoFile

ExistingTodos == {t \in TodoIds : todos[t].exists}
ExistingFiles == {f \in FileIds : files[f].exists}
FilesOf(t) == {f \in FileIds : files[f].exists /\ files[f].todoId = t}

\* authenticateToken: the bearer token resolves to a user row.
Authenticated(u) == UserRow(u).exists

\* requireAdmin
RequireAdmin(u) == UserRow(u).exists /\ UserRow(u).role = "ADMIN"

\* where: { OR: [{ assignedToId: userId }, { createdById: userId }] }
MutAccessWhere(row, userId) ==
    /\ row.assignedToId = userId \/ row.createdById = userId
    /\ UserRow(userId).status = "ACTIVE"
AccessWhere(row, userId) == row.assignedToId = userId \/ row.createdById = userId

\* prisma.todo.findFirst({ where: { id, OR: [assignee, creator] } })
MutFindAccessibleTodo(id, userId) == TodoRow(id)
FindAccessibleTodo(id, userId) ==
    IF TodoRow(id).exists /\ AccessWhere(TodoRow(id), userId) THEN TodoRow(id) ELSE NoTodo

\* The row as a response shows it: with its id and include: { files: ... }
WithFiles(id, row) == [id |-> id, row |-> row, files |-> FilesOf(id)]

NotFoundOrDenied == [status |-> 404, error |-> "Todo not found or access denied"]

\* ------------------------------------------------------------------- seed
\* bcrypt.hash(password, 12) and bcrypt.compare(password, hash): a hash is
\* not the password, and only the password it was made from matches it.
Hash(password) == <<"bcrypt", password>>
Compare(password, hash) == hash = Hash(password)

SeedName(u) ==
    CASE u = "admin" -> "Admin User" [] u = "john" -> "John Doe" [] OTHER -> "Jane Smith"
SeedEmail(u) ==
    CASE u = "admin" -> "admin@example.com" [] u = "john" -> "john@example.com"
      [] OTHER -> "jane@example.com"
SeedPassword(u) == IF u = "admin" THEN "admin123" ELSE "password123"

SeedUsers ==
    [u \in UserIds |->
        [exists |-> TRUE,
         name |-> SeedName(u),
         email |-> SeedEmail(u),
         password |-> Hash(SeedPassword(u)),
         profilePicture |-> Null,
         role |-> IF u = "admin" THEN "ADMIN" ELSE "USER",
         status |-> "ACTIVE"]]

Init ==
    /\ users = SeedUsers
    /\ todos = [t \in TodoIds |-> NoTodo]
    /\ files = [f \in FileIds |-> NoFile]
    /\ storage = {}
    /\ nextTodo = 0
    /\ nextFile = 0
    /\ req = [p \in Procs |-> Idle]
    /\ client = FreshPage

\* A connection takes a new request when it is not in the middle of one.
Free(p) == req[p].pc \in {"idle", "done"}

Done(op, u, id, arg, resp) ==
    [op |-> op, pc |-> "done", user |-> u, id |-> id, arg |-> arg, resp |-> resp]

InFlight(op, pc, u, id, arg) ==
    [op |-> op, pc |-> pc, user |-> u, id |-> id, arg |-> arg]

\* ------------------------------------------------------- GET /api/todos/:id
GetTodoResponse(userId, id) ==
    LET todo == FindAccessibleTodo(id, userId)
    IN  IF ~todo.exists THEN NotFoundOrDenied
        ELSE [status |-> 200, todo |-> WithFiles(id, todo)]

GetTodo(p, u, id) ==
    /\ Free(p)
    /\ Authenticated(u)
    /\ req' = [req EXCEPT ![p] = Done("get", u, id, <<>>, GetTodoResponse(u, id))]
    /\ UNCHANGED <<users, todos, files, storage, nextTodo, nextFile>>
    /\ UNCHANGED client

\* ------------------------------------------------------ POST /api/todos
\* Creates not yet past prisma.todo.create: each will take one todo id.
PendingCreates == {q \in Procs : req[q].pc = "create_write"}

\* if (!assignedUser || assignedUser.status === 'DISABLED') return 400
MutAssigneeRejected(assignedUser) == ~assignedUser.exists
AssigneeRejected(assignedUser) ==
    ~assignedUser.exists \/ assignedUser.status = "DISABLED"

InvalidAssignee == [status |-> 400, error |-> "Assigned user not found or disabled"]

\* upload.array('files', 5) has stored the n files under fresh names; then
\* the handler looks the assignee up.  body is { title, description,
\* assignedToId, dueDate }.
CreateLookup(p, u, body, n) ==
    /\ Free(p)
    /\ Authenticated(u)
    /\ nextTodo + Cardinality(PendingCreates) < MaxTodos
    /\ n <= MaxUploadCount
    /\ nextFile + n <= MaxFiles
    /\ LET names == (nextFile + 1)..(nextFile + n)
           assignedUser == UserRow(body.assignedToId)
           arg == [body |-> body, names |-> names]
       IN  /\ storage' = storage \cup names
           /\ nextFile' = nextFile + n
           /\ req' = [req EXCEPT ![p] =
                 IF AssigneeRejected(assignedUser)
                 THEN Done("create", u, GhostTodo, arg, InvalidAssignee)
                 ELSE InFlight("create", "create_write", u, GhostTodo, arg)]
    /\ UNCHANGED <<users, todos, files, nextTodo>>
    /\ UNCHANGED client

\* data: { title, description, createdById, assignedToId,
\*         dueDate: dueDate ? new Date(dueDate) : null }
\* status and order take their column defaults, createdAt is now().
NewTodoRow(createdById, body, now) ==
    [exists |-> TRUE, title |-> body.title, description |-> body.description,
     status |-> DefaultStatus,
     dueDate |-> IF body.dueDate \in {Absent, ""} THEN Null ELSE body.dueDate,
     order |-> DefaultOrder, createdAt |-> now,
     createdById |-> createdById, assignedToId |-> body.assignedToId]

\* The foreign keys of the todo table: both users must exist at the write.
TodoForeignKeysHold(createdById, assignedToId) ==
    UserRow(createdById).exists /\ UserRow(assignedToId).exists

\* What the error handler answers when a handler's catch passes an error on.
ServerError == [status |-> 500, error |-> "Internal server error"]

\* const todo = await prisma.todo.create(...)
CreateWrite(p) ==
    /\ req[p].pc = "create_write"
    /\ LET r == req[p]
           id == nextTodo + 1
       IN  IF ~TodoForeignKeysHold(r.user, r.arg.body.assignedToId)
           THEN /\ req' = [req EXCEPT ![p] = Done("create", r.user, GhostTodo, r.arg, ServerError)]
                /\ UNCHANGED <<todos, nextTodo>>
           ELSE /\ todos' = [todos EXCEPT ![id] = NewTodoRow(r.user, r.arg.body, id)]
                /\ nextTodo' = id
                /\ req' = [req EXCEPT ![p] =
                      InFlight("create",
                               IF r.arg.names # {} THEN "create_files" ELSE "create_read",
                               r.user, id, r.arg)]
    /\ UNCHANGED <<users, files, storage, nextFile>>
    /\ UNCHANGED client

\* filesData: one row per uploaded file, todoId: todo.id
FileRows(names, todoId) ==
    [f \in FileIds |->
        IF f \in names THEN [exists |-> TRUE, todoId |-> todoId, filename |-> f]
        ELSE files[f]]

\* await prisma.file.createMany({ data: filesData }): all rows or none; it
\* throws when the todo row is gone (foreign key of the file table).
CreateFiles(p) ==
    /\ req[p].pc = "create_files"
    /\ LET r == req[p]
       IN  IF ~TodoRow(r.id).exists
           THEN /\ req' = [req EXCEPT ![p] = Done("create", r.user, r.id, r.arg, ServerError)]
                /\ UNCHANGED files
           ELSE /\ files' = FileRows(r.arg.names, r.id)
                /\ req' = [req EXCEPT ![p] = InFlight("create", "create_read", r.user, r.id, r.arg)]
    /\ UNCHANGED <<users, todos, storage, nextTodo, nextFile>>
    /\ UNCHANGED client

\* The createMany call rejects (the database refuses or drops the write):
\* the catch block passes the error on and nothing is undone.
CreateFilesFail(p) ==
    /\ req[p].pc = "create_files"
    /\ req' = [req EXCEPT ![p] = Done("create", req[p].user, req[p].id, req[p].arg, ServerError)]
    /\ UNCHANGED <<users, todos, files, storage, nextTodo, nextFile>>
    /\ UNCHANGED client

\* const todoWithFiles = await prisma.todo.findUnique(...); res.status(201)
CreateRead(p) ==
    /\ req[p].pc = "create_read"
    /\ LET r == req[p]
       IN  req' = [req EXCEPT ![p] =
               Done("create", r.user, r.id, r.arg,
                    [status |-> 201,
                     todo |-> IF TodoRow(r.id).exists THEN WithFiles(r.id, TodoRow(r.id))
                              ELSE NoTodo])]
    /\ UNCHANGED <<users, todos, files, storage, nextTodo, nextFile>>
    /\ UNCHANGED client

\* ------------------------------------------------------ PUT /api/todos/:id
\* updateData from the body fields that are not undefined (assignedToId is
\* added after its check); dueDate: dueDate ? new Date(dueDate) : null
MutBuildUpdateData(body) ==
    [f \in DOMAIN body \cap {"title", "description", "status", "dueDate"} |->
        IF f = "dueDate" /\ body[f] \in {"", Null} THEN Null ELSE body[f]]
BuildUpdateData(body) ==
    [f \in DOMAIN body \cap {"title", "description", "status", "dueDate", "order"} |->
        IF f = "dueDate" /\ body[f] \in {"", Null} THEN Null ELSE body[f]]

WithAssignee(data, body) ==
    [f \in DOMAIN data \cup {"assignedToId"} |->
        IF f = "assignedToId" THEN body.assignedToId ELSE data[f]]

\* prisma.todo.update({ where: { id }, data }) on the row
MutApplyUpdate(row, data) ==
    [f \in DOMAIN row |->
        IF f \in DOMAIN data THEN data[f]
        ELSE IF f = "createdById" /\ "assignedToId" \in DOMAIN data THEN data.assignedToId
        ELSE row[f]]
ApplyUpdate(row, data) ==
    [f \in DOMAIN row |-> IF f \in DOMAIN data THEN data[f] ELSE row[f]]

\* const existingTodo = await prisma.todo.findFirst(...)
UpdateLookup(p, u, id, body) ==
    /\ Free(p)
    /\ Authenticated(u)
    /\ LET existingTodo == FindAccessibleTodo(id, u)
           arg == [body |-> body, data |-> BuildUpdateData(body)]
       IN  req' = [req EXCEPT ![p] =
               IF ~existingTodo.exists THEN Done("update", u, id, arg, NotFoundOrDenied)
               ELSE InFlight("update",
                             IF "assignedToId" \in DOMAIN body THEN "update_assignee"
                             ELSE "update_write",
                             u, id, arg)]
    /\ UNCHANGED <<users, todos, files, storage, nextTodo, nextFile>>
    /\ UNCHANGED client

\* const assignedUser = await prisma.user.findUnique(...)
MutUpdateAssignee(p) ==
    /\ req[p].pc = "update_assignee"
    /\ LET r == req[p]
           assignedUser == UserRow(r.arg.body.assignedToId)
       IN  /\ req' = [req EXCEPT ![p] =
                 IF AssigneeRejected(assignedUser)
                 THEN Done("update", r.user, r.id, r.arg, InvalidAssignee)
                 ELSE InFlight("update", "update_write", r.user, r.id,
                               [r.arg EXCEPT !.data = WithAssignee(r.arg.data, r.arg.body)])]
           /\ todos' = IF AssigneeRejected(assignedUser) /\ TodoRow(r.id).exists
                       THEN [todos EXCEPT ![r.id] = ApplyUpdate(todos[r.id], r.arg.data)]
                       ELSE todos
    /\ UNCHANGED <<users, files, storage, nextTodo, nextFile>>
    /\ UNCHANGED client

UpdateAssignee(p) ==
    /\ req[p].pc = "update_assignee"
    /\ LET r == req[p]
           assignedUser == UserRow(r.arg.body.assignedToId)
       IN  req' = [req EXCEPT ![p] =
               IF AssigneeRejected(assignedUser)
               THEN Done("update", r.user, r.id, r.arg, InvalidAssignee)
               ELSE InFlight("update", "update_write", r.user, r.id,
                             [r.arg EXCEPT !.data = WithAssignee(r.arg.data, r.arg.body)])]
    /\ UNCHANGED <<users, todos, files, storage, nextTodo, nextFile>>
    /\ UNCHANGED client

\* const todo = await prisma.todo.update(...): throws when the row is gone
\* or the new assignee row is gone (foreign key).
UpdateWrite(p) ==
    /\ req[p].pc = "update_write"
    /\ LET r == req[p]
           data == r.arg.data
           fails == \/ ~TodoRow(r.id).exists
                    \/ /\ "assignedToId" \in DOMAIN data
                       /\ ~UserRow(data.assignedToId).exists
       IN  IF fails
           THEN /\ req' = [req EXCEPT ![p] = Done("update", r.user, r.id, r.arg, ServerError)]
                /\ UNCHANGED todos
           ELSE /\ todos' = [todos EXCEPT ![r.id] = ApplyUpdate(todos[r.id], data)]
                /\ req' = [req EXCEPT ![p] =
                      Done("update", r.user, r.id, r.arg,
                           [status |-> 200,
                            todo |-> [id |-> r.id, row |-> ApplyUpdate(todos[r.id], data),
                                      files |-> FilesOf(r.id)]])]
    /\ UNCHANGED <<users, files, storage, nextTodo, nextFile>>
    /\ UNCHANGED client

\* --------------------------------------------------- PATCH /api/todos/reorder
\* todoUpdates.map(update => update.id)
TodoIdsOf(items) == [i \in 1..Len(items) |-> items[i].id]

\* prisma.todo.findMany({ where: { id: { in: todoIds }, OR: [...] } })
FindUserTodos(todoIds, userId) ==
    {t \in ExistingTodos :
        /\ \E i \in 1..Len(todoIds) : todoIds[i] = t
        /\ AccessWhere(todos[t], userId)}

\* if (userTodos.length !== todoIds.length) return 403
MutReorderDenied(todoIds, userId) ==
    Len(todoIds) > 0 /\ Cardinality(FindUserTodos(todoIds, userId)) = 0
ReorderDenied(todoIds, userId) ==
    Cardinality(FindUserTodos(todoIds, userId)) # Len(todoIds)

\* todoUpdates is { isArray, items }: the body field, and its elements when
\* it is an array.
ReorderLookup(p, u, todoUpdates) ==
    /\ Free(p)
    /\ Authenticated(u)
    /\ req' = [req EXCEPT ![p] =
          IF ~todoUpdates.isArray
          THEN Done("reorder", u, GhostTodo, todoUpdates,
                    [status |-> 400, error |-> "todoUpdates must be an array"])
          ELSE IF ReorderDenied(TodoIdsOf(todoUpdates.items), u)
          THEN Done("reorder", u, GhostTodo, todoUpdates,
                    [status |-> 403, error |-> "Access denied to some todos"])
          ELSE InFlight("reorder", "reorder_tx", u, GhostTodo, todoUpdates)]
    /\ UNCHANGED <<users, todos, files, storage, nextTodo, nextFile>>
    /\ UNCHANGED client

\* The updates of the array applied in order to the table ts.
RECURSIVE ApplyOrderUpdates(_, _)
ApplyOrderUpdates(ts, items) ==
    IF items = <<>> THEN ts
    ELSE ApplyOrderUpdates(
            [ts EXCEPT ![Head(items).id] = [@ EXCEPT !.order = Head(items).order]],
            Tail(items))

\* prisma.$transaction(updatePromises): every update, or (when an update
\* finds no row) none of them and an error.
MutTransaction(ts, items) ==
    IF \A i \in 1..Len(items) : items[i].id \in TodoIds /\ ts[items[i].id].exists
    THEN [ok |-> TRUE, todos |-> ApplyOrderUpdates(ts, items)]
    ELSE LET k == CHOOSE i \in 1..Len(items) :
                      /\ ~(items[i].id \in TodoIds /\ ts[items[i].id].exists)
                      /\ \A j \in 1..(i - 1) : items[j].id \in TodoIds /\ ts[items[j].id].exists
         IN  [ok |-> FALSE, todos |-> ApplyOrderUpdates(ts, SubSeq(items, 1, k - 1))]
Transaction(ts, items) ==
    IF \A i \in 1..Len(items) : items[i].id \in TodoIds /\ ts[items[i].id].exists
    THEN [ok |-> TRUE, todos |-> ApplyOrderUpdates(ts, items)]
    ELSE [ok |-> FALSE, todos |-> ts]

ReorderTx(p) ==
    /\ req[p].pc = "reorder_tx"
    /\ LET r == req[p]
           tx == Transaction(todos, r.arg.items)
       IN  /\ todos' = tx.todos
           /\ req' = [req EXCEPT ![p] =
                 Done("reorder", r.user, GhostTodo, r.arg,
                      IF tx.ok THEN [status |-> 200, message |-> "Todo order updated successfully"]
                      ELSE ServerError)]
    /\ UNCHANGED <<users, files, storage, nextTodo, nextFile>>
    /\ UNCHANGED client

\* --------------------------------------------------- DELETE /api/todos/:id
\* prisma.todo.findFirst({ where: { id, createdById: userId } })
MutFindCreatedTodo(id, userId) ==
    IF TodoRow(id).exists /\ AccessWhere(TodoRow(id), userId) THEN TodoRow(id) ELSE NoTodo
FindCreatedTodo(id, userId) ==
    IF TodoRow(id).exists /\ TodoRow(id).createdById = userId THEN TodoRow(id) ELSE NoTodo

DeleteLookup(p, u, id) ==
    /\ Free(p)
    /\ Authenticated(u)
    /\ req' = [req EXCEPT ![p] =
          IF ~FindCreatedTodo(id, u).exists THEN Done("delete", u, id, <<>>, NotFoundOrDenied)
          ELSE InFlight("delete", "delete_write", u, id, <<>>)]
    /\ UNCHANGED <<users, todos, files, storage, nextTodo, nextFile>>
    /\ UNCHANGED client

\* The file table's foreign key on todoId cascades: the rows of the deleted
\* todos' files go with them.
CascadeFiles(gone) ==
    [f \in FileIds |-> IF files[f].exists /\ files[f].todoId \in gone THEN NoFile ELSE files[f]]

\* await prisma.todo.delete({ where: { id } }): the handler touches no file
\* on disk.
DeleteWrite(p) ==
    /\ req[p].pc = "delete_write"
    /\ LET r == req[p]
       IN  IF ~TodoRow(r.id).exists
           THEN /\ req' = [req EXCEPT ![p] = Done("delete", r.user, r.id, <<>>, ServerError)]
                /\ UNCHANGED <<todos, files>>
           ELSE /\ todos' = [todos EXCEPT ![r.id] = NoTodo]
                /\ files' = CascadeFiles({r.id})
                /\ req' = [req EXCEPT ![p] =
                      Done("delete", r.user, r.id, <<>>,
                           [status |-> 200, message |-> "Todo deleted successfully"])]
    /\ UNCHANGED <<users, storage, nextTodo, nextFile>>
    /\ UNCHANGED client

\* ---------------------------------------------- PATCH /api/users/:id/status
AdminRequired == [status |-> 403, error |-> "Admin access required"]

SetUserStatus(p, a, id, status) ==
    /\ Free(p)
    /\ Authenticated(a)
    /\ LET resp == IF ~RequireAdmin(a) THEN AdminRequired
                   ELSE IF status \notin {"ACTIVE", "DISABLED"}
                   THEN [status |-> 400, error |-> "Invalid status"]
                   ELSE IF ~UserRow(id).exists THEN ServerError
                   ELSE [status |-> 200, user |-> [UserRow(id) EXCEPT !.status = status]]
       IN  /\ users' = IF resp.status = 200 THEN [users EXCEPT ![id].status = status] ELSE users
           /\ req' = [req EXCEPT ![p] = Done("setStatus", a, GhostTodo, [id |-> id, status |-> status], resp)]
    /\ UNCHANGED <<todos, files, storage, nextTodo, nextFile>>
    /\ UNCHANGED client

\* ---------------------------------------------------- DELETE /api/users/:id
\* The todo table's foreign keys on createdById and assignedToId cascade.
MutTodosOfUser(id) == {t \in ExistingTodos : todos[t].createdById = id}
TodosOfUser(id) ==
    {t \in ExistingTodos : todos[t].createdById = id \/ todos[t].assignedToId = id}

DeleteUser(p, a, id) ==
    /\ Free(p)
    /\ Authenticated(a)
    /\ LET resp == IF ~RequireAdmin(a) THEN AdminRequired
                   ELSE IF a = id
                   THEN [status |-> 400, error |-> "Cannot delete your own account"]
                   ELSE IF ~UserRow(id).exists THEN ServerError
                   ELSE [status |-> 200, message |-> "User deleted successfully"]
           gone == TodosOfUser(id)
       IN  /\ IF resp.status = 200
              THEN /\ users' = [users EXCEPT ![id] = NoUser]
                   /\ todos' = [t \in TodoIds |-> IF t \in gone THEN NoTodo ELSE todos[t]]
                   /\ files' = CascadeFiles(gone)
              ELSE UNCHANGED <<users, todos, files>>
           /\ req' = [req EXCEPT ![p] = Done("deleteUser", a, GhostTodo, [id |-> id], resp)]
    /\ UNCHANGED <<storage, nextTodo, nextFile>>
    /\ UNCHANGED client

\* --------------------------------------------------------- GET /api/todos
\* whereClause[key] = val
SetKey(wc, key, val) ==
    [k \in DOMAIN wc \cup {key} |-> IF k = key THEN val ELSE wc[k]]

EmptyWhere == [k \in {} |-> Absent]

\* The three assignments the handler makes to whereClause, in its order.
\* A search of "" and a missing search are both falsy.
ScopeWhere(userId, type) ==
    IF type = "assigned" THEN SetKey(EmptyWhere, "assignedToId", userId)
    ELSE IF type = "created" THEN SetKey(EmptyWhere, "createdById", userId)
    ELSE SetKey(EmptyWhere, "OR", [kind |-> "scope", userId |-> userId])

StatusWhere(wc, status) ==
    IF status # Absent /\ status \in TodoStatuses THEN SetKey(wc, "status", status) ELSE wc

SearchWhere(wc, search) ==
    IF search # <<>> THEN SetKey(wc, "OR", [kind |-> "search", text |-> search]) ELSE wc

BuildWhere(userId, type, status, search) ==
    SearchWhere(StatusWhere(ScopeWhere(userId, type), status), search)

\* Prisma's reading of the where object: its keys are conjoined.
MatchesWhere(row, wc) ==
    /\ "assignedToId" \in DOMAIN wc => row.assignedToId = wc.assignedToId
    /\ "createdById" \in DOMAIN wc => row.createdById = wc.createdById
    /\ "status" \in DOMAIN wc => row.status = wc.status
    /\ "OR" \in DOMAIN wc =>
          IF wc.OR.kind = "scope" THEN AccessWhere(row, wc.OR.userId)
          ELSE \/ ContainsInsensitive(row.title, wc.OR.text)
               \/ ContainsInsensitive(row.description, wc.OR.text)

\* orderBy: [{ order: 'asc' }, { createdAt: 'desc' }]
MutComesBefore(a, b) == todos[a].createdAt > todos[b].createdAt
ComesBefore(a, b) ==
    \/ todos[a].order < todos[b].order
    \/ todos[a].order = todos[b].order /\ todos[a].createdAt > todos[b].createdAt

RECURSIVE OrderBy(_)
OrderBy(S) ==
    IF S = {} THEN <<>>
    ELSE LET first == CHOOSE t \in S : \A o \in S \ {t} : ComesBefore(t, o)
         IN  <<first>> \o OrderBy(S \ {first})

FindManyTodos(wc) == OrderBy({t \in ExistingTodos : MatchesWhere(todos[t], wc)})

ListResponse(userId, type, status, search) ==
    LET found == FindManyTodos(BuildWhere(userId, type, status, search))
    IN  [status |-> 200,
         todos |-> [i \in 1..Len(found) |-> WithFiles(found[i], todos[found[i]])]]

ListTodos(p, u, type, status, search) ==
    /\ Free(p)
    /\ Authenticated(u)
    /\ req' = [req EXCEPT ![p] =
          Done("list", u, GhostTodo, [type |-> type, status |-> status, search |-> search],
               ListResponse(u, type, status, search))]
    /\ UNCHANGED <<users, todos, files, storage, nextTodo, nextFile>>
    /\ UNCHANGED client

\* ------------------------------------------- POST /api/files/upload/:todoId
\* limits: { fileSize: parseInt(process.env.MAX_FILE_SIZE!) || 10485760 }
FileSizeLimit == 10485760

\* fileFilter: the extension is one of the allowed types and the media type
\* starts with image/, application/ or text/.
AllowedExts == {"jpeg", "jpg", "png", "gif", "pdf", "doc", "docx", "txt", "zip", "rar",
                "xlsx", "xls", "ppt", "pptx"}
AllowedMimes == {"image", "application", "text"}
FileFilter(file) == file.mime \in AllowedMimes /\ file.ext \in AllowedExts

\* A file of the multipart body gets through multer.
FileAccepted(file) == FileFilter(file) /\ file.size <= FileSizeLimit

\* The position of the first file multer refuses; 0 when there is none.
FirstRefused(batch) ==
    IF \A i \in 1..Len(batch) : FileAccepted(batch[i]) THEN 0
    ELSE CHOOSE i \in 1..Len(batch) :
            /\ ~FileAccepted(batch[i])
            /\ \A j \in 1..(i - 1) : FileAccepted(batch[j])

\* How many files of the body multer's disk storage has written when it
\* stops: those before the refused one, and the refused one as well when it
\* passed the filter and then grew past the size limit.
WrittenCount(batch) ==
    LET k == FirstRefused(batch)
    IN  IF k = 0 THEN Len(batch)
        ELSE IF FileFilter(batch[k]) THEN k ELSE k - 1

\* multer on an error: it removes every file of the request it has written.
MutRemoveUploadedFiles(stored, names) ==
    IF names = {} THEN stored
    ELSE stored \ (names \ {CHOOSE f \in names : \A g \in names : g <= f})
RemoveUploadedFiles(stored, names) == stored \ names

\* upload.array('files', 5): multer stores the files of the body under fresh
\* names before the handler runs.
UploadReceive(p, u, todoId, batch) ==
    /\ Free(p)
    /\ Authenticated(u)
    /\ Len(batch) <= MaxUploadCount
    /\ nextFile + Len(batch) <= MaxFiles
    /\ LET names == (nextFile + 1)..(nextFile + WrittenCount(batch))
           arg == [batch |-> batch, names |-> names, pending |-> {}, failed |-> FALSE]
       IN  /\ storage' = storage \cup names
           /\ nextFile' = nextFile + WrittenCount(batch)
           /\ req' = [req EXCEPT ![p] =
                 InFlight("upload",
                          IF FirstRefused(batch) = 0 THEN "upload_lookup" ELSE "upload_abort",
                          u, todoId, arg)]
    /\ UNCHANGED <<users, todos, files, nextTodo>>
    /\ UNCHANGED client

\* multer passes its error on: the handler does not run.
UploadAbort(p) ==
    /\ req[p].pc = "upload_abort"
    /\ storage' = RemoveUploadedFiles(storage, req[p].arg.names)
    /\ req' = [req EXCEPT ![p] =
          Done("upload", req[p].user, req[p].id, req[p].arg, ServerError)]
    /\ UNCHANGED <<users, todos, files, nextTodo, nextFile>>
    /\ UNCHANGED client

\* const todo = await prisma.todo.findFirst(...); the two early returns; then
\* Promise.all starts one prisma.file.create per file.
UploadLookup(p) ==
    /\ req[p].pc = "upload_lookup"
    /\ LET r == req[p]
           todo == FindAccessibleTodo(r.id, r.user)
       IN  req' = [req EXCEPT ![p] =
               IF ~todo.exists THEN Done("upload", r.user, r.id, r.arg, NotFoundOrDenied)
               ELSE IF Len(r.arg.batch) = 0
               THEN Done("upload", r.user, r.id, r.arg,
                         [status |-> 400, error |-> "No files uploaded"])
               ELSE InFlight("upload", "upload_write", r.user, r.id,
                             [r.arg EXCEPT !.pending = r.arg.names])]
    /\ UNCHANGED <<users, todos, files, storage, nextTodo, nextFile>>
    /\ UNCHANGED client

\* The foreign key of the file table: the todo must exist at the write.
MutFileForeignKeyHolds(todoId) == TRUE
FileForeignKeyHolds(todoId) == TodoRow(todoId).exists

\* One prisma.file.create of the batch runs: each is a statement of its own.
\* When it throws, Promise.all rejects and the other creates still run.
UploadCreate(p) ==
    /\ req[p].pc = "upload_write"
    /\ \E f \in req[p].arg.pending :
          LET r == req[p]
          IN  IF FileForeignKeyHolds(r.id)
              THEN /\ files' = [files EXCEPT ![f] =
                          [exists |-> TRUE, todoId |-> r.id, filename |-> f]]
                   /\ req' = [req EXCEPT ![p].arg.pending = @ \ {f}]
              ELSE /\ files' = files
                   /\ req' = [req EXCEPT ![p].arg.pending = @ \ {f},
                                         ![p].arg.failed = TRUE]
    /\ UNCHANGED <<users, todos, storage, nextTodo, nextFile>>
    /\ UNCHANGED client

\* One prisma.file.create rejects (the database refuses or drops the write).
UploadCreateFail(p) ==
    /\ req[p].pc = "upload_write"
    /\ \E f \in req[p].arg.pending :
          req' = [req EXCEPT ![p].arg.pending = @ \ {f}, ![p].arg.failed = TRUE]
    /\ UNCHANGED <<users, todos, files, storage, nextTodo, nextFile>>
    /\ UNCHANGED client

\* res.status(201), or the catch block's next(error)
UploadRespond(p) ==
    /\ req[p].pc = "upload_write"
    /\ req[p].arg.pending = {}
    /\ LET r == req[p]
       IN  req' = [req EXCEPT ![p] =
               Done("upload", r.user, r.id, r.arg,
                    IF r.arg.failed THEN ServerError
                    ELSE [status |-> 201, message |-> "Files uploaded successfully",
                          files |-> r.arg.names])]
    /\ UNCHANGED <<users, todos, files, storage, nextTodo, nextFile>>
    /\ UNCHANGED client

\* --------------------------------------------- GET /api/files/download/:id
\* prisma.file.findFirst({ where: { id, todo: { OR: [assignee, creator] } } })
MutFindAccessibleFile(id, userId) ==
    IF /\ FileRow(id).exists
       /\ TodoRow(FileRow(id).todoId).exists
       /\ TodoRow(FileRow(id).todoId).createdById = userId
    THEN FileRow(id) ELSE NoFile
FindAccessibleFile(id, userId) ==
    IF /\ FileRow(id).exists
       /\ TodoRow(FileRow(id).todoId).exists
       /\ AccessWhere(TodoRow(FileRow(id).todoId), userId)
    THEN FileRow(id) ELSE NoFile

FileNotFoundOrDenied == [status |-> 404, error |-> "File not found or access denied"]

DownloadLookup(p, u, id) ==
    /\ Free(p)
    /\ Authenticated(u)
    /\ LET file == FindAccessibleFile(id, u)
       IN  req' = [req EXCEPT ![p] =
               IF ~file.exists THEN Done("download", u, id, <<>>, FileNotFoundOrDenied)
               ELSE InFlight("download", "download_serve", u, id, file)]
    /\ UNCHANGED <<users, todos, files, storage, nextTodo, nextFile>>
    /\ UNCHANGED client

\* if (!fs.existsSync(filePath)) return 404 ...; fileStream.pipe(res)
MutOnDisk(stored, filename) == TRUE
OnDisk(stored, filename) == filename \in stored

DownloadServe(p) ==
    /\ req[p].pc = "download_serve"
    /\ LET r == req[p]
       IN  req' = [req EXCEPT ![p] =
               Done("download", r.user, r.id, r.arg,
                    IF ~OnDisk(storage, r.arg.filename)
                    THEN [status |-> 404, error |-> "File not found on disk"]
                    ELSE [status |-> 200, bytes |-> r.arg.filename])]
    /\ UNCHANGED <<users, todos, files, storage, nextTodo, nextFile>>
    /\ UNCHANGED client

\* ----------------------------------------------------- DELETE /api/files/:id
FileDeleteLookup(p, u, id) ==
    /\ Free(p)
    /\ Authenticated(u)
    /\ LET file == FindAccessibleFile(id, u)
       IN  req' = [req EXCEPT ![p] =
               IF ~file.exists THEN Done("fileDelete", u, id, <<>>, FileNotFoundOrDenied)
               ELSE InFlight("fileDelete", "filedel_unlink", u, id, file)]
    /\ UNCHANGED <<users, todos, files, storage, nextTodo, nextFile>>
    /\ UNCHANGED client

\* if (fs.existsSync(filePath)) fs.unlinkSync(filePath); then the handler
\* awaits prisma.file.delete.
FileDeleteUnlink(p) ==
    /\ req[p].pc = "filedel_unlink"
    /\ storage' = storage \ {req[p].arg.filename}
    /\ req' = [req EXCEPT ![p].pc = "filedel_write"]
    /\ UNCHANGED <<users, todos, files, nextTodo, nextFile>>
    /\ UNCHANGED client

\* fs.unlinkSync throws (the object is there and cannot be removed): the
\* catch block passes the error on.
FileDeleteUnlinkFail(p) ==
    /\ req[p].pc = "filedel_unlink"
    /\ OnDisk(storage, req[p].arg.filename)
    /\ req' = [req EXCEPT ![p] =
          Done("fileDelete", req[p].user, req[p].id, req[p].arg, ServerError)]
    /\ UNCHANGED <<users, todos, files, storage, nextTodo, nextFile>>
    /\ UNCHANGED client

\* await prisma.file.delete({ where: { id } }): throws when the row is gone.
FileDeleteWrite(p) ==
    /\ req[p].pc = "filedel_write"
    /\ LET r == req[p]
       IN  IF ~FileRow(r.id).exists
           THEN /\ req' = [req EXCEPT ![p] = Done("fileDelete", r.user, r.id, r.arg, ServerError)]
                /\ UNCHANGED files
           ELSE /\ files' = [files EXCEPT ![r.id] = NoFile]
                /\ req' = [req EXCEPT ![p] =
                      Done("fileDelete", r.user, r.id, r.arg,
                           [status |-> 200, message |-> "File deleted successfully"])]
    /\ UNCHANGED <<users, todos, storage, nextTodo, nextFile>>
    /\ UNCHANGED client

\* ------------------------------------------- GET /api/files/todo/:todoId
\* orderBy: { createdAt: 'desc' }: file rows are created one after another,
\* so the row made last comes first.
RECURSIVE NewestFirst(_)
NewestFirst(S) ==
    IF S = {} THEN <<>>
    ELSE LET newest == CHOOSE f \in S : \A g \in S : g <= f
         IN  <<newest>> \o NewestFirst(S \ {newest})

FilesForTodoLookup(p, u, todoId) ==
    /\ Free(p)
    /\ Authenticated(u)
    /\ LET todo == FindAccessibleTodo(todoId, u)
       IN  req' = [req EXCEPT ![p] =
               IF ~todo.exists THEN Done("filesForTodo", u, todoId, <<>>, NotFoundOrDenied)
               ELSE InFlight("filesForTodo", "files_read", u, todoId, <<>>)]
    /\ UNCHANGED <<users, todos, files, storage, nextTodo, nextFile>>
    /\ UNCHANGED client

\* prisma.file.findMany({ where: { todoId }, ... })
FilesForTodoRead(p) ==
    /\ req[p].pc = "files_read"
    /\ LET r == req[p]
       IN  req' = [req EXCEPT ![p] =
               Done("filesForTodo", r.user, r.id, r.arg,
                    [status |-> 200, files |-> NewestFirst(FilesOf(r.id))])]
    /\ UNCHANGED <<users, todos, files, storage, nextTodo, nextFile>>
    /\ UNCHANGED client

\* ------------------------------------------------------------ GET /api/files
\* where: { todo: { OR: [{ assignedToId: userId }, { createdById: userId }] } }
MutUserFilesWhere(f, userId) == FileRow(f).exists
UserFilesWhere(f, userId) ==
    /\ FileRow(f).exists
    /\ TodoRow(FileRow(f).todoId).exists
    /\ AccessWhere(TodoRow(FileRow(f).todoId), userId)

ListUserFiles(p, u) ==
    /\ Free(p)
    /\ Authenticated(u)
    /\ req' = [req EXCEPT ![p] =
           Done("userFiles", u, GhostFile, <<>>,
                [status |-> 200,
                 files |-> NewestFirst({f \in FileIds : UserFilesWhere(f, u)})])]
    /\ UNCHANGED <<users, todos, files, storage, nextTodo, nextFile>>
    /\ UNCHANGED client

\* ------------------------------------------------- POST /api/auth/register
\* prisma.user.findUnique({ where: { email } }): the id of the row, or the
\* id of no user.
FindUserByEmail(email) ==
    IF \E u \in UserIds : users[u].exists /\ users[u].email = email
    THEN CHOOSE u \in UserIds : users[u].exists /\ users[u].email = email
    ELSE GhostUser

\* Column defaults of the user table (user.create passes neither column).
DefaultRole == "USER"
DefaultUserStatus == "ACTIVE"

\* The unique index on email: no other row has it at the write.
MutEmailUnique(id, email) == TRUE
EmailUnique(id, email) ==
    \A o \in UserIds \ {id} : ~(users[o].exists /\ users[o].email = email)

\* data: { name, email, password: hashedPassword }
NewUserRow(body) ==
    [exists |-> TRUE, name |-> body.name, email |-> body.email,
     password |-> Hash(body.password), profilePicture |-> Null,
     role |-> DefaultRole, status |-> DefaultUserStatus]

\* jwt.sign({ userId: user.id }, ...): a token names its user.
SignToken(userId) == userId

\* const existingUser = await prisma.user.findUnique(...); then the handler
\* awaits bcrypt.hash.
RegisterLookup(p, body) ==
    /\ Free(p)
    /\ req' = [req EXCEPT ![p] =
          IF FindUserByEmail(body.email) # GhostUser
          THEN Done("register", GhostUser, GhostTodo, body,
                    [status |-> 400, error |-> "User with this email already exists"])
          ELSE InFlight("register", "register_write", GhostUser, GhostTodo, body)]
    /\ UNCHANGED <<users, todos, files, storage, nextTodo, nextFile>>
    /\ UNCHANGED client

\* const user = await prisma.user.create(...): the database gives the row an
\* id no row has had; it throws when the email is taken by now.
RegisterWrite(p) ==
    /\ req[p].pc = "register_write"
    /\ LET r == req[p]
           free == {u \in UserIds : ~users[u].exists}
       IN  IF ~EmailUnique(GhostUser, r.arg.email)
           THEN /\ req' = [req EXCEPT ![p] = Done("register", GhostUser, GhostTodo, r.arg, ServerError)]
                /\ UNCHANGED users
           ELSE /\ free # {}
                /\ LET id == CHOOSE u \in free : TRUE
                   IN  /\ users' = [users EXCEPT ![id] = NewUserRow(r.arg)]
                       /\ req' = [req EXCEPT ![p] =
                             Done("register", GhostUser, GhostTodo, r.arg,
                                  [status |-> 201, user |-> id, token |-> SignToken(id)])]
    /\ UNCHANGED <<todos, files, storage, nextTodo, nextFile>>
    /\ UNCHANGED client

\* ---------------------------------------------------- POST /api/auth/login
InvalidCredentials == [status |-> 401, error |-> "Invalid credentials"]
AccountDisabled == [status |-> 401, error |-> "Account is disabled"]

\* const user = await prisma.user.findUnique(...); the two early returns;
\* then the handler awaits bcrypt.compare on the row it has read.
LoginLookup(p, body) ==
    /\ Free(p)
    /\ LET u == FindUserByEmail(body.email)
       IN  req' = [req EXCEPT ![p] =
               IF u = GhostUser
               THEN Done("login", GhostUser, GhostTodo, [body |-> body], InvalidCredentials)
               ELSE IF users[u].status = "DISABLED"
               THEN Done("login", GhostUser, GhostTodo, [body |-> body], AccountDisabled)
               ELSE InFlight("login", "login_compare", GhostUser, GhostTodo,
                             [body |-> body, found |-> u, row |-> users[u]])]
    /\ UNCHANGED <<users, todos, files, storage, nextTodo, nextFile>>
    /\ UNCHANGED client

\* const isValidPassword = await bcrypt.compare(...); jwt.sign; res.json
LoginCompare(p) ==
    /\ req[p].pc = "login_compare"
    /\ LET r == req[p]
       IN  req' = [req EXCEPT ![p] =
               Done("login", GhostUser, GhostTodo, r.arg,
                    IF ~Compare(r.arg.body.password, r.arg.row.password)
                    THEN InvalidCredentials
                    ELSE [status |-> 200, message |-> "Login successful",
                          user |-> r.arg.found, token |-> SignToken(r.arg.found)])]
    /\ UNCHANGED <<users, todos, files, storage, nextTodo, nextFile>>
    /\ UNCHANGED client

\* ------------------------------------------------------------ /api/users
\* if (req.user!.role !== 'ADMIN' && req.user!.id !== id) return 403
MutSelfOrAdmin(u, id) == TRUE
SelfOrAdmin(u, id) == ~(UserRow(u).role # "ADMIN" /\ u # id)

AccessDenied == [status |-> 403, error |-> "Access denied"]
UserNotFound == [status |-> 404, error |-> "User not found"]

\* GET /api/users
ListUsers(p, a) ==
    /\ Free(p)
    /\ Authenticated(a)
    /\ req' = [req EXCEPT ![p] =
          Done("listUsers", a, GhostTodo, <<>>,
               IF ~RequireAdmin(a) THEN AdminRequired
               ELSE [status |-> 200, users |-> {u \in UserIds : users[u].exists}])]
    /\ UNCHANGED <<users, todos, files, storage, nextTodo, nextFile>>
    /\ UNCHANGED client

\* GET /api/users/:id
GetUser(p, u, id) ==
    /\ Free(p)
    /\ Authenticated(u)
    /\ req' = [req EXCEPT ![p] =
          Done("getUser", u, GhostTodo, [id |-> id],
               IF ~SelfOrAdmin(u, id) THEN AccessDenied
               ELSE IF ~UserRow(id).exists THEN UserNotFound
               ELSE [status |-> 200, user |-> UserRow(id)])]
    /\ UNCHANGED <<users, todos, files, storage, nextTodo, nextFile>>
    /\ UNCHANGED client

\* if (name) updateData.name = name; if (email) updateData.email = email
ProfileData(body) ==
    [f \in {g \in DOMAIN body \cap {"name", "email"} : body[g] # ""} |-> body[f]]

\* PUT /api/users/:id: prisma.user.update throws when the row is gone or the
\* new email is taken.
UpdateProfile(p, u, id, body) ==
    /\ Free(p)
    /\ Authenticated(u)
    /\ LET data == ProfileData(body)
           row == [f \in DOMAIN UserRow(id) |->
                      IF f \in DOMAIN data THEN data[f] ELSE UserRow(id)[f]]
           resp == IF ~SelfOrAdmin(u, id) THEN AccessDenied
                   ELSE IF ~UserRow(id).exists THEN ServerError
                   ELSE IF "email" \in DOMAIN data /\ ~EmailUnique(id, data.email)
                   THEN ServerError
                   ELSE [status |-> 200, user |-> row]
       IN  /\ users' = IF resp.status = 200 THEN [users EXCEPT ![id] = row] ELSE users
           /\ req' = [req EXCEPT ![p] =
                 Done("updateProfile", u, GhostTodo, [id |-> id, body |-> body], resp)]
    /\ UNCHANGED <<todos, files, storage, nextTodo, nextFile>>
    /\ UNCHANGED client

\* PUT /api/users/:id/password: the checks and prisma.user.findUnique; then
\* the handler awaits bcrypt.compare and bcrypt.hash on the row it has read.
PasswordLookup(p, u, id, body) ==
    /\ Free(p)
    /\ Authenticated(u)
    /\ LET arg == [id |-> id, body |-> body]
       IN  req' = [req EXCEPT ![p] =
               IF ~SelfOrAdmin(u, id) THEN Done("password", u, GhostTodo, arg, AccessDenied)
               ELSE IF body.currentPassword = "" \/ body.newPassword = ""
               THEN Done("password", u, GhostTodo, arg,
                         [status |-> 400, error |-> "Current and new password are required"])
               ELSE IF ~UserRow(id).exists THEN Done("password", u, GhostTodo, arg, UserNotFound)
               ELSE IF ~Compare(body.currentPassword, UserRow(id).password)
               THEN Done("password", u, GhostTodo, arg,
                         [status |-> 400, error |-> "Current password is incorrect"])
               ELSE InFlight("password", "password_write", u, GhostTodo, arg)]
    /\ UNCHANGED <<users, todos, files, storage, nextTodo, nextFile>>
    /\ UNCHANGED client

\* const updatedUser = await prisma.user.update({ data: { password } })
PasswordWrite(p) ==
    /\ req[p].pc = "password_write"
    /\ LET r == req[p]
           id == r.arg.id
       IN  IF ~UserRow(id).exists
           THEN /\ req' = [req EXCEPT ![p] = Done("password", r.user, GhostTodo, r.arg, ServerError)]
                /\ UNCHANGED users
           ELSE /\ users' = [users EXCEPT ![id].password = Hash(r.arg.body.newPassword)]
                /\ req' = [req EXCEPT ![p] =
                      Done("password", r.user, GhostTodo, r.arg,
                           [status |-> 200,
                            user |-> [users[id] EXCEPT !.password = Hash(r.arg.body.newPassword)]])]
    /\ UNCHANGED <<todos, files, storage, nextTodo, nextFile>>
    /\ UNCHANGED client

\* `/uploads/profiles/${req.file.filename}`
ProfilePicturePath == "/uploads/profiles/profile-1.png"

\* POST /api/users/:id/profile-picture, after upload.single has stored the
\* file, if the body has one.
UploadProfilePicture(p, u, id, hasFile) ==
    /\ Free(p)
    /\ Authenticated(u)
    /\ LET resp == IF ~SelfOrAdmin(u, id) THEN AccessDenied
                   ELSE IF ~hasFile THEN [status |-> 400, error |-> "No file uploaded"]
                   ELSE IF ~UserRow(id).exists THEN ServerError
                   ELSE [status |-> 200,
                         user |-> [UserRow(id) EXCEPT !.profilePicture = ProfilePicturePath]]
       IN  /\ users' = IF resp.status = 200
                       THEN [users EXCEPT ![id].profilePicture = ProfilePicturePath]
                       ELSE users
           /\ req' = [req EXCEPT ![p] =
                 Done("profilePicture", u, GhostTodo, [id |-> id, hasFile |-> hasFile], resp)]
    /\ UNCHANGED <<todos, files, storage, nextTodo, nextFile>>
    /\ UNCHANGED client

\* ------------------------------------------- browser: AuthProvider, ApiClient
\* client.token and client.storedUser are localStorage's 'token' and 'user',
\* client.ctxUser the provider's user state; a token and a user record are
\* written as the id of the user they belong to.  client.leaving says that
\* window.location.href has been assigned and the document not yet replaced:
\* until then the callbacks of the old document may still run.
ServerState == <<users, todos, files, storage, nextTodo, nextFile, req>>

\* A document is loaded (after a redirect, or by the user): the provider's
\* state is the initial one, localStorage is what it was.
PageLoad ==
    /\ client' = [FreshPage EXCEPT !.token = client.token, !.storedUser = client.storedUser]
    /\ UNCHANGED ServerState

\* initAuth up to its await: the request interceptor attaches the token
\* read from localStorage.
InitAuthStart ==
    /\ client.initAuth = "mount"
    /\ client' = IF client.token # Absent /\ client.storedUser # Absent
                 THEN [client EXCEPT !.ctxUser = client.storedUser,
                                     !.initAuth = "waiting",
                                     !.sentToken = client.token]
                 ELSE [client EXCEPT !.loading = FALSE, !.initAuth = "done"]
    /\ UNCHANGED ServerState

\* getCurrentUser resolves with the user of the token that was sent.
InitAuthOk ==
    /\ client.initAuth = "waiting"
    /\ client' = [client EXCEPT !.ctxUser = client.sentToken,
                                !.storedUser = client.sentToken,
                                !.loading = FALSE,
                                !.initAuth = "done",
                                !.sentToken = Absent]
    /\ UNCHANGED ServerState

\* getCurrentUser rejects: the response interceptor (on 401), then the catch
\* block.
InitAuthFail(status) ==
    /\ client.initAuth = "waiting"
    /\ client' = [client EXCEPT !.token = Absent,
                                !.storedUser = Absent,
                                !.ctxUser = Null,
                                !.loading = FALSE,
                                !.initAuth = "done",
                                !.sentToken = Absent,
                                !.leaving = client.leaving \/ status = 401]
    /\ UNCHANGED ServerState

\* login and register up to their await
LoginStart(kind) ==
    /\ client.initAuth # "mount"
    /\ client.call = "none"
    /\ client' = [client EXCEPT !.call = kind]
    /\ UNCHANGED ServerState

\* const { user, token } = response; the two setItem calls; setUser(user)
LoginOk(u) ==
    /\ client.call # "none"
    /\ client' = [client EXCEPT !.token = SignToken(u),
                                !.storedUser = u,
                                !.ctxUser = u,
                                !.call = "none"]
    /\ UNCHANGED ServerState

\* The call rejects: the response interceptor (on 401), then the catch block,
\* which shows a message and rethrows.
LoginFail(status) ==
    /\ client.call # "none"
    /\ status = 401 => client.call = "login"
    /\ client' = IF status = 401
                 THEN [client EXCEPT !.token = Absent, !.storedUser = Absent,
                                     !.leaving = TRUE, !.call = "none"]
                 ELSE [client EXCEPT !.call = "none"]
    /\ UNCHANGED ServerState

\* logout, offered by the navigation bar when the context has a user
Logout ==
    /\ client.ctxUser # Null
    /\ client' = [client EXCEPT !.token = Absent, !.storedUser = Absent,
                                !.ctxUser = Null, !.leaving = TRUE]
    /\ UNCHANGED ServerState

\* updateUser(userData), called by the profile page with the record that the
\* server returned for the context user's id to the stored token.
UpdateUser ==
    /\ client.ctxUser # Null
    /\ client.token = SignToken(client.ctxUser)
    /\ client' = [client EXCEPT !.storedUser = client.ctxUser]
    /\ UNCHANGED ServerState

\* Any other call of the API client is answered 401.
ApiUnauthorized ==
    /\ client.initAuth # "mount"
    /\ client' = [client EXCEPT !.token = Absent, !.storedUser = Absent, !.leaving = TRUE]
    /\ UNCHANGED ServerState

\* ------------------------------------------------------------ specifications
\* One connection: the handlers of the todo routes run one after another.
CreateBodies ==
    {[title |-> <<"t">>, description |-> NullStr, assignedToId |-> a, dueDate |-> Absent] :
        a \in UserIds \cup {GhostUser}}

Next ==
    \/ \E u \in UserIds, id \in TodoIds \cup {GhostTodo} : GetTodo(1, u, id)
    \/ \E u \in UserIds, body \in CreateBodies, n \in 0..1 : CreateLookup(1, u, body, n)
    \/ CreateWrite(1)
    \/ CreateFiles(1)
    \/ CreateFilesFail(1)
    \/ CreateRead(1)
    \/ \E u \in UserIds, id \in TodoIds \cup {GhostTodo} : DeleteLookup(1, u, id)
    \/ DeleteWrite(1)
    \/ \E status \in {"ACTIVE", "DISABLED"} : SetUserStatus(1, "admin", "jane", status)

Spec == Init /\ [][Next]_vars

\* The list handler alone, applied once to a todo table drawn from the rows
\* below.
ListTitles == {<<"a">>, <<"A", "b">>}
ListDescriptions == {NullStr, <<"b">>}
ListTypes == {Absent, "created", "assigned"}
ListStatuses == {Absent, "COMPLETED", "bogus"}
ListSearches == {<<>>, <<"a">>, <<"B">>}

ListRows ==
    {[exists |-> TRUE, title |-> ti, description |-> de, status |-> st, dueDate |-> Null,
      order |-> DefaultOrder, createdAt |-> 0, createdById |-> c, assignedToId |-> a] :
        ti \in ListTitles, de \in ListDescriptions, st \in {"PENDING", "COMPLETED"},
        c \in UserIds, a \in UserIds}

InitList ==
    /\ users = SeedUsers
    /\ \E g \in [TodoIds -> ListRows \cup {NoTodo}] :
          /\ g[1].exists
          /\ todos = [t \in TodoIds |->
                IF g[t].exists THEN [g[t] EXCEPT !.createdAt = t] ELSE NoTodo]
    /\ files = [f \in FileIds |-> NoFile]
    /\ storage = {}
    /\ nextTodo = MaxTodos
    /\ nextFile = 0
    /\ req = [p \in Procs |-> Idle]
    /\ client = FreshPage

NextList ==
    \E u \in UserIds, type \in ListTypes, status \in ListStatuses, search \in ListSearches :
        /\ req[1] = Idle
        /\ ListTodos(1, u, type, status, search)

SpecList == InitList /\ [][NextList]_vars

\* The reorder handler applied once, to every todoUpdates value of up to
\* MaxTodos entries, over a table of todos of john and jane.
ReorderInputs ==
    {[isArray |-> FALSE, items |-> <<>>]} \cup
    {[isArray |-> TRUE, items |-> items] :
        items \in UNION {[1..n -> [id : TodoIds \cup {GhostTodo}, order : Orders]] :
                            n \in 0..MaxTodos}}

ReorderCallers == {"john", "jane"}

SeededRow(createdById, assignedToId, now) ==
    NewTodoRow(createdById,
               [title |-> <<"t">>, description |-> NullStr,
                assignedToId |-> assignedToId, dueDate |-> Absent], now)

InitReorder ==
    /\ users = SeedUsers
    /\ \E c \in [TodoIds -> ReorderCallers], a \in [TodoIds -> ReorderCallers] :
          todos = [t \in TodoIds |-> SeededRow(c[t], a[t], t)]
    /\ files = [f \in FileIds |-> NoFile]
    /\ storage = {}
    /\ nextTodo = MaxTodos
    /\ nextFile = 0
    /\ req = [p \in Procs |-> Idle]
    /\ client = FreshPage

NextReorder ==
    \/ \E u \in ReorderCallers, todoUpdates \in ReorderInputs :
          /\ req[1] = Idle
          /\ ReorderLookup(1, u, todoUpdates)
    \/ ReorderTx(1)

SpecReorder == InitReorder /\ [][NextReorder]_vars

\* Reorder requests that pass the access check, racing on every connection
\* with each other, with a reader and with deletes: john's requests over
\* john's todos, each todoUpdates naming distinct existing ids.
RaceInputs ==
    {[isArray |-> TRUE, items |-> items] :
        items \in {s \in UNION {[1..n -> [id : TodoIds, order : Orders]] :
                                   n \in 1..MaxTodos} :
                      \A i, j \in 1..Len(s) : s[i].id = s[j].id => i = j}}

InitRace ==
    /\ users = SeedUsers
    /\ todos = [t \in TodoIds |-> SeededRow("john", IF t = 1 THEN "jane" ELSE "john", t)]
    /\ files = [f \in FileIds |-> NoFile]
    /\ storage = {}
    /\ nextTodo = MaxTodos
    /\ nextFile = 0
    /\ req = [p \in Procs |-> Idle]
    /\ client = FreshPage

NextRace ==
    \E p \in Procs :
        \/ \E todoUpdates \in RaceInputs : ReorderLookup(p, "john", todoUpdates)
        \/ ReorderTx(p)
        \/ \E id \in TodoIds : GetTodo(p, "john", id)
        \/ \E id \in TodoIds : DeleteLookup(p, "john", id)
        \/ DeleteWrite(p)

SpecRace == InitRace /\ [][NextRace]_vars

\* john's creates and reassignments naming jane, racing on every connection
\* with the admin's status changes and deletion of jane.  john's first todo
\* exists from the start.
AssignBody == [title |-> <<"t">>, description |-> NullStr, assignedToId |-> "jane",
               dueDate |-> Absent]

InitAssign ==
    /\ users = SeedUsers
    /\ todos = [t \in TodoIds |-> IF t = 1 THEN SeededRow("john", "john", 1) ELSE NoTodo]
    /\ files = [f \in FileIds |-> NoFile]
    /\ storage = {}
    /\ nextTodo = 1
    /\ nextFile = 0
    /\ req = [p \in Procs |-> Idle]
    /\ client = FreshPage

NextAssign ==
    \E p \in Procs :
        \/ CreateLookup(p, "john", AssignBody, 0)
        \/ CreateWrite(p)
        \/ CreateRead(p)
        \/ \E id \in TodoIds : UpdateLookup(p, "john", id, [assignedToId |-> "jane"])
        \/ UpdateAssignee(p)
        \/ UpdateWrite(p)
        \/ \E status \in {"ACTIVE", "DISABLED"} : SetUserStatus(p, "admin", "jane", status)
        \/ DeleteUser(p, "admin", "jane")

SpecAssign == InitAssign /\ [][NextAssign]_vars

\* The files of a multipart body: one that multer accepts, one past the size
\* limit, one of a type the filter refuses.
GoodFile == [size |-> 1, ext |-> "pdf", mime |-> "application"]
BigFile == [size |-> FileSizeLimit + 1, ext |-> "pdf", mime |-> "application"]
BadTypeFile == [size |-> 1, ext |-> "exe", mime |-> "application"]

\* Uploads to john's todo (assigned to jane) racing on every connection with
\* the deletion of that todo, with creates that carry a file, with file
\* deletes and with the admin's deletion of jane.
InitOwn ==
    /\ users = SeedUsers
    /\ todos = [t \in TodoIds |-> IF t = 1 THEN SeededRow("john", "jane", 1) ELSE NoTodo]
    /\ files = [f \in FileIds |-> NoFile]
    /\ storage = {}
    /\ nextTodo = 1
    /\ nextFile = 0
    /\ req = [p \in Procs |-> Idle]
    /\ client = FreshPage

NextOwn ==
    \E p \in Procs :
        \/ UploadReceive(p, "jane", 1, <<GoodFile>>)
        \/ UploadLookup(p)
        \/ UploadCreate(p)
        \/ UploadRespond(p)
        \/ DeleteLookup(p, "john", 1)
        \/ DeleteWrite(p)
        \/ CreateLookup(p, "john", AssignBody, 1)
        \/ CreateWrite(p)
        \/ CreateFiles(p)
        \/ CreateRead(p)
        \/ \E f \in FileIds : FileDeleteLookup(p, "john", f)
        \/ FileDeleteUnlink(p)
        \/ FileDeleteWrite(p)
        \/ UpdateLookup(p, "john", 1, [assignedToId |-> "jane"])
        \/ UpdateAssignee(p)
        \/ UpdateWrite(p)
        \/ DeleteUser(p, "admin", "jane")

SpecOwn == InitOwn /\ [][NextOwn]_vars

\* One connection: uploads and file deletes by each of the three users, one
\* after another, on john's todo (assigned to jane), on the id of a todo
\* that does not exist, with every body of up to MaxFiles files.
UploadBatches ==
    UNION {[1..n -> {GoodFile, BigFile, BadTypeFile}] : n \in 0..MaxFiles}

InitFiles ==
    /\ users = SeedUsers
    /\ todos = [t \in TodoIds |-> IF t = 1 THEN SeededRow("john", "jane", 1) ELSE NoTodo]
    /\ files = [f \in FileIds |-> NoFile]
    /\ storage = {}
    /\ nextTodo = 1
    /\ nextFile = 0
    /\ req = [p \in Procs |-> Idle]
    /\ client = FreshPage

NextFiles ==
    \/ \E u \in UserIds, t \in TodoIds, batch \in UploadBatches : UploadReceive(1, u, t, batch)
    \/ UploadAbort(1)
    \/ UploadLookup(1)
    \/ UploadCreate(1)
    \/ UploadCreateFail(1)
    \/ UploadRespond(1)
    \/ \E u \in UserIds, f \in FileIds : FileDeleteLookup(1, u, f)
    \/ FileDeleteUnlink(1)
    \/ FileDeleteUnlinkFail(1)
    \/ FileDeleteWrite(1)

SpecFiles == InitFiles /\ [][NextFiles]_vars

\* Downloads by each user racing on every connection with john's delete of
\* the one file of his todo (assigned to jane), which is on disk at the start.
InitDownload ==
    /\ users = SeedUsers
    /\ todos = [t \in TodoIds |-> IF t = 1 THEN SeededRow("john", "jane", 1) ELSE NoTodo]
    /\ files = [f \in FileIds |->
                  IF f = 1 THEN [exists |-> TRUE, todoId |-> 1, filename |-> 1] ELSE NoFile]
    /\ storage = {1}
    /\ nextTodo = 1
    /\ nextFile = 1
    /\ req = [p \in Procs |-> Idle]
    /\ client = FreshPage

NextDownload ==
    \E p \in Procs :
        \/ \E u \in UserIds, f \in FileIds : DownloadLookup(p, u, f)
        \/ DownloadServe(p)
        \/ FileDeleteLookup(p, "john", 1)
        \/ FileDeleteUnlink(p)
        \/ FileDeleteWrite(p)

SpecDownload == InitDownload /\ [][NextDownload]_vars

\* One connection: updates by each user of john's todo (assigned to jane,
\* with one file), with every subset of the six body fields supplied, and
\* with an empty dueDate and an assignee that does not exist.
UpdateFields == {"title", "description", "status", "dueDate", "order", "assignedToId"}

PatchValue(f) ==
    CASE f = "title" -> <<"u">>
      [] f = "description" -> <<"d">>
      [] f = "status" -> "IN_PROGRESS"
      [] f = "dueDate" -> "2026-01-01"
      [] f = "order" -> MaxOrder
      [] f = "assignedToId" -> "admin"

UpdateBodies ==
    {[f \in K |-> PatchValue(f)] : K \in SUBSET UpdateFields}
        \cup {[dueDate |-> ""], [assignedToId |-> GhostUser, title |-> <<"u">>]}

InitUpdate ==
    /\ users = SeedUsers
    /\ todos = [t \in TodoIds |-> IF t = 1 THEN SeededRow("john", "jane", 1) ELSE NoTodo]
    /\ files = [f \in FileIds |->
                  IF f = 1 THEN [exists |-> TRUE, todoId |-> 1, filename |-> 1] ELSE NoFile]
    /\ storage = {1}
    /\ nextTodo = 1
    /\ nextFile = 1
    /\ req = [p \in Procs |-> Idle]
    /\ client = FreshPage

NextUpdate ==
    \/ \E u \in UserIds, id \in TodoIds, body \in UpdateBodies : UpdateLookup(1, u, id, body)
    \/ UpdateAssignee(1)
    \/ UpdateWrite(1)

SpecUpdate == InitUpdate /\ [][NextUpdate]_vars

\* One connection: every todo and file operation asked by the admin, who is
\* neither creator nor assignee of john's todo (assigned to jane, titled
\* "a", with one file).
AdminReorders ==
    {[isArray |-> TRUE, items |-> <<[id |-> t, order |-> o]>>] : t \in TodoIds, o \in Orders}

AdminPatches ==
    {[status |-> "COMPLETED"], [assignedToId |-> "admin"], [title |-> <<"u">>],
     [order |-> MaxOrder]}

InitAdmin ==
    /\ users = SeedUsers
    /\ todos = [t \in TodoIds |->
                  IF t = 1 THEN [SeededRow("john", "jane", 1) EXCEPT !.title = <<"a">>]
                  ELSE NoTodo]
    /\ files = [f \in FileIds |->
                  IF f = 1 THEN [exists |-> TRUE, todoId |-> 1, filename |-> 1] ELSE NoFile]
    /\ storage = {1}
    /\ nextTodo = 1
    /\ nextFile = 1
    /\ req = [p \in Procs |-> Idle]
    /\ client = FreshPage

NextAdmin ==
    \/ \E id \in TodoIds \cup {GhostTodo} : GetTodo(1, "admin", id)
    \/ \E id \in TodoIds \cup {GhostTodo}, body \in AdminPatches : UpdateLookup(1, "admin", id, body)
    \/ \E id \in TodoIds \cup {GhostTodo} : DeleteLookup(1, "admin", id)
    \/ \E todoUpdates \in AdminReorders : ReorderLookup(1, "admin", todoUpdates)
    \/ \E id \in TodoIds \cup {GhostTodo} : UploadReceive(1, "admin", id, <<GoodFile>>)
    \/ UploadLookup(1)
    \/ \E f \in FileIds \cup {GhostFile} : DownloadLookup(1, "admin", f)
    \/ \E f \in FileIds \cup {GhostFile} : FileDeleteLookup(1, "admin", f)
    \/ \E type \in ListTypes, status \in ListStatuses, search \in ListSearches :
          ListTodos(1, "admin", type, status, search)

SpecAdmin == InitAdmin /\ [][NextAdmin]_vars

\* Registrations and profile updates that set an email, on every
\* connection, over two email addresses; only the admin exists at the start.
RegisterEmails == {"john@example.com", "jane@example.com"}

RegisterBodies ==
    {[name |-> "New User", email |-> e, password |-> "password123"] : e \in RegisterEmails}

InitRegister ==
    /\ users = [u \in UserIds |-> IF u = "admin" THEN SeedUsers[u] ELSE NoUser]
    /\ todos = [t \in TodoIds |-> NoTodo]
    /\ files = [f \in FileIds |-> NoFile]
    /\ storage = {}
    /\ nextTodo = 0
    /\ nextFile = 0
    /\ req = [p \in Procs |-> Idle]
    /\ client = FreshPage

NextRegister ==
    \E p \in Procs :
        \/ \E body \in RegisterBodies : RegisterLookup(p, body)
        \/ RegisterWrite(p)
        \/ \E u \in UserIds, id \in UserIds, e \in RegisterEmails :
              UpdateProfile(p, u, id, [email |-> e])

SpecRegister == InitRegister /\ [][NextRegister]_vars

\* One connection: status changes of each user asked by the admin and by
\* john, and gets and lists by every user, over john's todo assigned to jane (with a file).
InitStatus ==
    /\ users = SeedUsers
    /\ todos = [t \in TodoIds |-> IF t = 1 THEN SeededRow("john", "jane", 1) ELSE NoTodo]
    /\ files = [f \in FileIds |->
                  IF f = 1 THEN [exists |-> TRUE, todoId |-> 1, filename |-> 1] ELSE NoFile]
    /\ storage = {1}
    /\ nextTodo = 1
    /\ nextFile = 1
    /\ req = [p \in Procs |-> Idle]
    /\ client = FreshPage

NextStatus ==
    \/ \E a \in {"admin", "john"}, id \in UserIds, status \in {"ACTIVE", "DISABLED", "BLOCKED"} :
          SetUserStatus(1, a, id, status)
    \/ \E u \in UserIds, id \in TodoIds : GetTodo(1, u, id)
    \/ \E u \in UserIds, type \in ListTypes : ListTodos(1, u, type, Absent, <<>>)

SpecStatus == InitStatus /\ [][NextStatus]_vars

\* One connection: reorders (each todoUpdates naming distinct ids) and
\* lists by john, who created both todos, and by jane, who is assigned one.
NextOrder ==
    \/ \E u \in {"john", "jane"}, todoUpdates \in RaceInputs : ReorderLookup(1, u, todoUpdates)
    \/ ReorderTx(1)
    \/ \E u \in {"john", "jane"}, type \in ListTypes : ListTodos(1, u, type, Absent, <<>>)

SpecOrder == InitRace /\ [][NextOrder]_vars

\* One connection: uploads of one file by each user to john's todo (assigned
\* to jane), to admin's todo (assigned to john) and to the id of no todo,
\* file deletes, and the two file lists asked by each user.
InitFileList ==
    /\ users = SeedUsers
    /\ todos = [t \in TodoIds |->
                  IF t = 1 THEN SeededRow("john", "jane", 1) ELSE SeededRow("admin", "john", t)]
    /\ files = [f \in FileIds |-> NoFile]
    /\ storage = {}
    /\ nextTodo = MaxTodos
    /\ nextFile = 0
    /\ req = [p \in Procs |-> Idle]
    /\ client = FreshPage

NextFileList ==
    \/ \E u \in UserIds, t \in TodoIds : UploadReceive(1, u, t, <<GoodFile>>)
    \/ UploadLookup(1)
    \/ UploadCreate(1)
    \/ UploadRespond(1)
    \/ \E u \in UserIds, f \in FileIds : FileDeleteLookup(1, u, f)
    \/ FileDeleteUnlink(1)
    \/ FileDeleteWrite(1)
    \/ \E u \in UserIds, t \in TodoIds \cup {GhostTodo} : FilesForTodoLookup(1, u, t)
    \/ FilesForTodoRead(1)
    \/ \E u \in UserIds : ListUserFiles(1, u)

SpecFileList == InitFileList /\ [][NextFileList]_vars

\* One connection: every route of the users router, called by each user on
\* john and on jane, one after another.
ProfileBodies == {[name |-> "Renamed", email |-> ""]}

PasswordBodies ==
    {[currentPassword |-> "password123", newPassword |-> "changed1"],
     [currentPassword |-> "password123", newPassword |-> ""]}

Targets == {"john", "jane"}

NextUsers ==
    \/ \E a \in UserIds : ListUsers(1, a)
    \/ \E u \in UserIds, id \in Targets : GetUser(1, u, id)
    \/ \E u \in UserIds, id \in Targets, body \in ProfileBodies : UpdateProfile(1, u, id, body)
    \/ \E u \in UserIds, id \in Targets, body \in PasswordBodies : PasswordLookup(1, u, id, body)
    \/ PasswordWrite(1)
    \/ \E u \in UserIds, id \in Targets, hasFile \in BOOLEAN :
          UploadProfilePicture(1, u, id, hasFile)
    \/ \E a \in UserIds, id \in Targets, status \in {"ACTIVE", "DISABLED"} :
          SetUserStatus(1, a, id, status)
    \/ \E a \in UserIds, id \in Targets : DeleteUser(1, a, id)

SpecUsers == InitStatus /\ [][NextUsers]_vars

\* Concurrent connections: jane, assigned john's todo 1, updates its title
\* and reorders it, while john reassigns it (to admin, or back to jane) or
\* deletes it.
NextCommit ==
    \E p \in Procs :
        \/ UpdateLookup(p, "jane", 1, [title |-> <<"u">>])
        \/ \E a \in {"admin", "jane"} : UpdateLookup(p, "john", 1, [assignedToId |-> a])
        \/ UpdateAssignee(p)
        \/ UpdateWrite(p)
        \/ ReorderLookup(p, "jane", [isArray |-> TRUE, items |-> <<[id |-> 1, order |-> MaxOrder]>>])
        \/ ReorderTx(p)
        \/ DeleteLookup(p, "john", 1)
        \/ DeleteWrite(p)

SpecCommit == InitRace /\ [][NextCommit]_vars

\* One connection: updates by each user of john's todo (assigned to jane,
\* with one file) and of the id of no todo, each supplying a title and a
\* status and most an assignee (any user, or the id of no user), between
\* changes of the users' status by the admin.
RefusedBodies ==
    {[assignedToId |-> a, title |-> <<"u">>, status |-> "COMPLETED"] :
        a \in UserIds \cup {GhostUser}}
        \cup {[title |-> <<"u">>, status |-> "COMPLETED"]}

NextRefused ==
    \/ \E u \in UserIds, id \in TodoIds, body \in RefusedBodies : UpdateLookup(1, u, id, body)
    \/ UpdateAssignee(1)
    \/ UpdateWrite(1)
    \/ \E id \in UserIds, status \in {"ACTIVE", "DISABLED"} : SetUserStatus(1, "admin", id, status)

SpecRefused == InitUpdate /\ [][NextRefused]_vars

\* One connection: on john's todo (assigned to jane), reassignments by each
\* user to each user, updates whose body names a createdById, reorders,
\* gets and deletes by each user, one after another.
CreatorBodies ==
    {[assignedToId |-> a] : a \in UserIds}
        \cup {[createdById |-> "jane", title |-> <<"u">>]}

NextCreator ==
    \/ \E u \in UserIds, body \in CreatorBodies : UpdateLookup(1, u, 1, body)
    \/ UpdateAssignee(1)
    \/ UpdateWrite(1)
    \/ \E u \in UserIds, todoUpdates \in AdminReorders : ReorderLookup(1, u, todoUpdates)
    \/ ReorderTx(1)
    \/ \E u \in UserIds : GetTodo(1, u, 1)
    \/ \E u \in UserIds : DeleteLookup(1, u, 1)
    \/ DeleteWrite(1)

SpecCreator == InitUpdate /\ [][NextCreator]_vars

\* One connection: logins with the email of each seeded user and of no
\* user, with each seeded password and with a wrong one, between changes of
\* the users' status by the admin.
LoginBodies ==
    [email : {SeedEmail(u) : u \in UserIds} \cup {"nobody@example.com"},
     password : {"admin123", "password123", "wrong"}]

NextLogin ==
    \/ \E body \in LoginBodies : LoginLookup(1, body)
    \/ LoginCompare(1)
    \/ \E id \in UserIds, status \in {"ACTIVE", "DISABLED"} : SetUserStatus(1, "admin", id, status)

SpecLogin == InitStatus /\ [][NextLogin]_vars

\* One browser, used by john and by jane: page loads, logins and
\* registrations that succeed or fail, logouts, profile updates and calls
\* answered 401, in any order the handlers allow.
ClientUsers == {"john", "jane"}

NextAuth ==
    \/ PageLoad
    \/ InitAuthStart
    \/ InitAuthOk
    \/ \E status \in {401, 404, 500} : InitAuthFail(status)
    \/ \E kind \in {"login", "register"} : LoginStart(kind)
    \/ \E u \in ClientUsers : LoginOk(u)
    \/ \E status \in {400, 401, 500} : LoginFail(status)
    \/ Logout
    \/ UpdateUser
    \/ ApiUnauthorized

SpecAuth == InitStatus /\ [][NextAuth]_vars

\* ------------------------------------------------------------------ claims
\* What the list contract asks of a row, for caller u and the filters.
ScopeHolds(row, u, type) ==
    IF type = "assigned" THEN row.assignedToId = u
    ELSE IF type = "created" THEN row.createdById = u
    ELSE row.createdById = u \/ row.assignedToId = u

StatusHolds(row, status) == status \in TodoStatuses => row.status = status

SearchHolds(row, search) ==
    search # <<>> =>
        \/ ContainsInsensitive(row.title, search)
        \/ ContainsInsensitive(row.description, search)

ReturnedIds(resp) == {resp.todos[i].id : i \in 1..Len(resp.todos)}

\* C1: list(U, filters) returns exactly the todos that satisfy the scope
\* predicate for U and the status filter and, when searchText is present, the
\* title-or-description match, each once.
C1_ListReturnsExactlyScoped ==
    \A p \in Procs :
        req[p].op = "list" =>
            LET r == req[p]
            IN  /\ ReturnedIds(r.resp) =
                      {t \in ExistingTodos :
                          /\ ScopeHolds(todos[t], r.user, r.arg.type)
                          /\ StatusHolds(todos[t], r.arg.status)
                          /\ SearchHolds(todos[t], r.arg.search)}
                /\ Len(r.resp.todos) = Cardinality(ReturnedIds(r.resp))

\* Connection p takes a request of kind op in this step.
StartStep(p, op) == Free(p) /\ req'[p].op = op /\ req'[p] # req[p]

\* Connection p's request of kind op gets its response in this step.
FinishStep(p, op) == req'[p].op = op /\ req'[p].pc = "done" /\ req'[p] # req[p]

\* C2: get(U, id) returns the todo iff U is its creator or its assignee; a
\* missing todo and a todo of others get the same 404 response.
C2_GetIffAccess ==
    \A p \in Procs :
        req[p].op = "get" =>
            LET r == req[p]
                row == TodoRow(r.id)
            IN  IF row.exists /\ r.user \in {row.createdById, row.assignedToId}
                THEN r.resp = [status |-> 200,
                               todo |-> [id |-> r.id, row |-> row, files |-> FilesOf(r.id)]]
                ELSE r.resp = [status |-> 404, error |-> "Todo not found or access denied"]

\* A user who is neither creator nor assignee asked for an existing todo.
C2_Witness ==
    \E p \in Procs :
        /\ req[p].op = "get"
        /\ TodoRow(req[p].id).exists
        /\ req[p].user \notin {TodoRow(req[p].id).createdById, TodoRow(req[p].id).assignedToId}
        /\ req[p].resp.status = 404

C7_CreateRejectsInvalidAssignee ==
    [][\A p \in Procs :
          /\ StartStep(p, "create") =>
                LET r == req'[p]
                    a == UserRow(r.arg.body.assignedToId)
                IN  (~a.exists \/ a.status = "DISABLED") =>
                        /\ r.pc = "done"
                        /\ r.resp = [status |-> 400,
                                     error |-> "Assigned user not found or disabled"]
                        /\ UNCHANGED <<todos, files>>
          /\ (FinishStep(p, "create") /\ req'[p].resp.status = 400) =>
                UNCHANGED <<todos, files>>
          /\ (FinishStep(p, "create") /\ req'[p].resp.status = 201
                  /\ req'[p].resp.todo # NoTodo) =>
                req'[p].resp.todo.row.createdById = req'[p].user
          /\ \A t \in TodoIds :
                (~todos[t].exists /\ todos'[t].exists /\ req'[p] # req[p]) =>
                    /\ req'[p].op = "create"
                    /\ req'[p].id = t
                    /\ todos'[t].createdById = req'[p].user
      ]_vars

\* A create with an uploaded file named a DISABLED user and was refused.
C7_Witness ==
    \E p \in Procs :
        /\ req[p].op = "create"
        /\ req[p].pc = "done"
        /\ req[p].resp.status = 400
        /\ req[p].arg.names # {}
        /\ UserRow(req[p].arg.body.assignedToId).exists
        /\ UserRow(req[p].arg.body.assignedToId).status = "DISABLED"

\* C10: after a successful delete of a todo no file row with that todoId
\* remains and no stored object of one of its files remains.
C10_DeleteRemovesFilesAndObjects ==
    [][\A p \in Procs :
          (/\ req[p].pc = "delete_write"
           /\ FinishStep(p, "delete")
           /\ req'[p].resp.status = 200) =>
              \A f \in FileIds :
                  (files[f].exists /\ files[f].todoId = req[p].id) =>
                      /\ ~files'[f].exists
                      /\ files[f].filename \notin storage'
      ]_vars

\* canAccess(U, T) of the contract, for the todo with this id.
CanAccess(u, id) ==
    TodoRow(id).exists /\ u \in {TodoRow(id).createdById, TodoRow(id).assignedToId}

\* C4: a reorder whose list holds an id the caller cannot access (a todo of
\* others or no todo) fails with 403 and leaves every todo row as it was.
C4_ReorderDeniedChangesNothing ==
    [][\A p \in Procs :
          StartStep(p, "reorder") =>
              LET r == req'[p]
                  items == r.arg.items
              IN  (r.arg.isArray /\ \E i \in 1..Len(items) : ~CanAccess(r.user, items[i].id)) =>
                      /\ r.pc = "done"
                      /\ r.resp = [status |-> 403, error |-> "Access denied to some todos"]
                      /\ todos' = todos
      ]_vars

\* A refused reorder named a todo the caller can access, with a new order
\* value, next to one the caller cannot access.
C4_Witness ==
    \E p \in Procs :
        /\ req[p].op = "reorder"
        /\ req[p].pc = "done"
        /\ req[p].resp.status = 403
        /\ \E i, j \in 1..Len(req[p].arg.items) :
              /\ CanAccess(req[p].user, req[p].arg.items[i].id)
              /\ todos[req[p].arg.items[i].id].order # req[p].arg.items[i].order
              /\ TodoRow(req[p].arg.items[j].id).exists
              /\ ~CanAccess(req[p].user, req[p].arg.items[j].id)

\* C5: a reorder every id of which the caller can access, the same id named
\* twice included, is not rejected: it goes on to apply its updates.
C5_ReorderAcceptedWhenAllAccessible ==
    [][\A p \in Procs :
          StartStep(p, "reorder") =>
              LET r == req'[p]
                  items == r.arg.items
              IN  (r.arg.isArray /\ \A i \in 1..Len(items) : CanAccess(r.user, items[i].id)) =>
                      r.pc = "reorder_tx"
      ]_vars

\* The order the array leaves in row t: that of its last entry for t.
OrderFor(items, t) ==
    items[CHOOSE i \in 1..Len(items) :
              /\ items[i].id = t
              /\ \A j \in (i + 1)..Len(items) : items[j].id # t].order

\* C6: the writes of one reorder call take effect in one step: either every
\* named row gets the call's value (whatever another call wrote before) and
\* no other row changes, or, a named row being gone, the call fails and no
\* row changes; and no other step changes the order of a row.
C6_ReorderAtomic ==
    [][/\ \A p \in Procs :
             (req[p].pc = "reorder_tx" /\ req'[p] # req[p]) =>
                 LET items == req[p].arg.items
                     named == {items[i].id : i \in 1..Len(items)}
                 IN  \/ /\ req'[p].resp.status = 200
                        /\ \A t \in TodoIds :
                              todos'[t] = IF t \in named
                                          THEN [todos[t] EXCEPT !.order = OrderFor(items, t)]
                                          ELSE todos[t]
                     \/ /\ req'[p].resp.status = 500
                        /\ \E t \in named : ~TodoRow(t).exists
                        /\ todos' = todos
       /\ \A t \in TodoIds :
             (todos[t].exists /\ todos'[t].exists /\ todos'[t].order # todos[t].order) =>
                 \E p \in Procs :
                     /\ req[p].pc = "reorder_tx"
                     /\ FinishStep(p, "reorder")
                     /\ req'[p].resp.status = 200
      ]_vars

\* A reorder of two rows failed because one was deleted after its access
\* check; the other row exists and does not hold the call's value.
C6_Witness ==
    \E p \in Procs :
        /\ req[p].op = "reorder"
        /\ req[p].pc = "done"
        /\ req[p].resp.status = 500
        /\ Len(req[p].arg.items) = 2
        /\ \E i \in 1..2 :
              /\ TodoRow(req[p].arg.items[i].id).exists
              /\ TodoRow(req[p].arg.items[i].id).order # req[p].arg.items[i].order

\* C8: when a create or an update writes a value of assignedToId to a todo,
\* the user it names exists and is ACTIVE at that moment.
C8_AssigneeActiveAtCommit ==
    [][\A p \in Procs :
          /\ (req[p].pc = "create_write" /\ req'[p].pc # "done" /\ req'[p] # req[p]) =>
                /\ UserRow(req[p].arg.body.assignedToId).exists
                /\ UserRow(req[p].arg.body.assignedToId).status = "ACTIVE"
          /\ (/\ req[p].pc = "update_write"
              /\ FinishStep(p, "update")
              /\ req'[p].resp.status = 200
              /\ "assignedToId" \in DOMAIN req[p].arg.data) =>
                /\ UserRow(req[p].arg.data.assignedToId).exists
                /\ UserRow(req[p].arg.data.assignedToId).status = "ACTIVE"
      ]_vars

\* C9: after a create either the todo row and one file row per uploaded file
\* exist, linked to the new todo, or neither the todo row nor any of those
\* file rows exists.
C9_CreateAllOrNothing ==
    \A p \in Procs :
        (req[p].op = "create" /\ req[p].pc = "done") =>
            LET r == req[p]
            IN  \/ /\ TodoRow(r.id).exists
                   /\ \A f \in r.arg.names : files[f].exists /\ files[f].todoId = r.id
                \/ /\ ~TodoRow(r.id).exists
                   /\ \A f \in r.arg.names : ~files[f].exists

\* C11: in every reachable state the todoId of every file row names an
\* existing todo, whatever the interleaving of creates, todo deletes, uploads,
\* file deletes and user deletes.
C11_FileTodoExists ==
    \A f \in FileIds : files[f].exists => TodoRow(files[f].todoId).exists

\* An upload passed its access check, the todo was deleted before the file
\* row was written, and the write was refused.
C11_Witness ==
    \E p \in Procs :
        /\ req[p].op = "upload"
        /\ req[p].pc = "done"
        /\ req[p].arg.failed
        /\ ~TodoRow(req[p].id).exists
        /\ req[p].arg.names \subseteq storage

\* C12: an upload by a caller who is neither creator nor assignee of the
\* todo, or to a todo that does not exist, is not accepted, and when it has
\* been answered no file row and no stored object of the request exists.
C12_DeniedUploadPersistsNothing ==
    \A p \in Procs :
        (/\ req[p].op = "upload"
         /\ req[p].pc = "done"
         /\ ~CanAccess(req[p].user, req[p].id))
        => /\ req[p].resp.status # 201
           /\ \A f \in req[p].arg.names : ~files[f].exists /\ f \notin storage

\* C13: when a file of an upload's body fails validation (too large, or of a
\* type the filter refuses), whatever its position, then after the call no
\* file row and no stored object of that body exists.
C13_InvalidBatchLeavesNothing ==
    \A p \in Procs :
        (/\ req[p].op = "upload"
         /\ req[p].pc = "done"
         /\ \E i \in 1..Len(req[p].arg.batch) : ~FileAccepted(req[p].arg.batch[i]))
        => /\ req[p].resp.status # 201
           /\ \A f \in req[p].arg.names : ~files[f].exists /\ f \notin storage

\* The second file of a body of two was too large: multer had written both.
C13_Witness ==
    \E p \in Procs :
        /\ req[p].op = "upload"
        /\ req[p].pc = "done"
        /\ Len(req[p].arg.batch) = 2
        /\ FileAccepted(req[p].arg.batch[1])
        /\ req[p].arg.batch[2].size > FileSizeLimit
        /\ Cardinality(req[p].arg.names) = 2
        /\ req[p].arg.names \cap storage = {}

\* C14: when the write of a file row of an upload fails, no file row of that
\* upload is there after the call.
C14_UploadRowsAllOrNothing ==
    \A p \in Procs :
        (req[p].op = "upload" /\ req[p].pc = "done" /\ req[p].arg.failed)
        => \A f \in req[p].arg.names : ~files[f].exists

\* The file the id names is a file of a todo the user created or is assigned.
CanAccessFile(u, f) ==
    FileRow(f).exists /\ CanAccess(u, FileRow(f).todoId)

\* C15: a file delete by a caller with access to the file ends with the file
\* row gone and a success response, whether or not the stored object could
\* be removed.
C15_FileDeleteSurvivesStorageFailure ==
    [][\A p \in Procs :
          (/\ req[p].op = "fileDelete"
           /\ req[p].pc # "done"
           /\ FinishStep(p, "fileDelete"))
          => /\ req'[p].resp.status = 200
             /\ ~FileRow(req[p].id).exists'
      ]_vars

\* C16: a file delete goes ahead iff the caller is creator or assignee of
\* the file's todo; any other caller gets the 404 "not found or access
\* denied" response and no file row and no stored object is removed; a file
\* row goes only by the request of such a caller.
C16_FileDeleteIffAccess ==
    [][\A p \in Procs :
          /\ StartStep(p, "fileDelete") =>
                IF CanAccessFile(req'[p].user, req'[p].id)
                THEN req'[p].pc = "filedel_unlink"
                ELSE /\ req'[p].pc = "done"
                     /\ req'[p].resp = [status |-> 404,
                                        error |-> "File not found or access denied"]
                     /\ UNCHANGED <<files, storage>>
          /\ \A f \in FileIds :
                (files[f].exists /\ ~files'[f].exists /\ req'[p] # req[p]) =>
                    /\ req[p].op = "fileDelete"
                    /\ req[p].id = f
                    /\ CanAccessFile(req[p].user, f)
      ]_vars

\* The assignee, who may not delete the todo, has deleted one of its files.
C16_Witness ==
    \E p \in Procs :
        /\ req[p].op = "fileDelete"
        /\ req[p].pc = "done"
        /\ req[p].resp.status = 200
        /\ TodoRow(req[p].arg.todoId).exists
        /\ TodoRow(req[p].arg.todoId).assignedToId = req[p].user
        /\ TodoRow(req[p].arg.todoId).createdById # req[p].user
        /\ ~FileRow(req[p].id).exists
        /\ req[p].arg.filename \notin storage

\* C17: a download is refused with 404 unless the caller is creator or
\* assignee of the file's todo; for such a caller it serves the bytes when
\* the stored object exists, and when the object is missing it answers 404
\* "not found on disk", never a success.
C17_DownloadNeedsAccessAndObject ==
    [][\A p \in Procs :
          /\ StartStep(p, "download") =>
                IF CanAccessFile(req'[p].user, req'[p].id)
                THEN req'[p].pc = "download_serve"
                ELSE /\ req'[p].pc = "done"
                     /\ req'[p].resp = [status |-> 404,
                                        error |-> "File not found or access denied"]
          /\ (req[p].pc = "download_serve" /\ req'[p] # req[p]) =>
                /\ req'[p].pc = "done"
                /\ req'[p].resp =
                      IF req[p].arg.filename \in storage
                      THEN [status |-> 200, bytes |-> req[p].arg.filename]
                      ELSE [status |-> 404, error |-> "File not found on disk"]
          /\ (FinishStep(p, "download") /\ req'[p].resp.status = 200) =>
                req[p].pc = "download_serve"
      ]_vars

\* The assignee asked for a file whose row exists and whose object is gone.
C17_Witness ==
    \E p \in Procs :
        /\ req[p].op = "download"
        /\ req[p].pc = "done"
        /\ req[p].user = "jane"
        /\ CanAccessFile(req[p].user, req[p].id)
        /\ FileRow(req[p].id).filename \notin storage
        /\ req[p].resp = [status |-> 404, error |-> "File not found on disk"]

\* The value a supplied body field leaves in the row.
Supplied(body, f) == IF f = "dueDate" /\ body[f] = "" THEN Null ELSE body[f]

\* C18: a successful update sets each of title, description, status, dueDate,
\* order and assignedToId that the body supplies to the supplied value and
\* leaves every other field of the todo, createdById included, every other
\* todo and every file row as they were; an update that is refused changes
\* nothing.
C18_UpdateChangesOnlySupplied ==
    [][\A p \in Procs :
          (req'[p].op = "update" /\ req'[p] # req[p]) =>
              LET r == req'[p]
                  body == r.arg.body
              IN  /\ files' = files
                  /\ \A t \in TodoIds \ {r.id} : todos'[t] = todos[t]
                  /\ IF r.pc = "done" /\ r.resp.status = 200
                     THEN /\ DOMAIN todos'[r.id] = DOMAIN todos[r.id]
                          /\ \A f \in DOMAIN todos[r.id] :
                                todos'[r.id][f] =
                                    IF f \in DOMAIN body \cap UpdateFields
                                    THEN Supplied(body, f)
                                    ELSE todos[r.id][f]
                     ELSE todos' = todos
      ]_vars

\* The assignee's update with only { status: IN_PROGRESS } succeeded.
C18_Witness ==
    \E p \in Procs :
        /\ req[p].op = "update"
        /\ req[p].pc = "done"
        /\ req[p].resp.status = 200
        /\ req[p].user = "jane"
        /\ DOMAIN req[p].arg.body = {"status"}
        /\ TodoRow(req[p].id).status = "IN_PROGRESS"
        /\ TodoRow(req[p].id).title = <<"t">>
        /\ TodoRow(req[p].id).assignedToId = "jane"
        /\ TodoRow(req[p].id).createdById = "john"
        /\ FilesOf(req[p].id) = {1}

\* C19: a user of role ADMIN who is neither creator nor assignee of a todo
\* is refused by get, update, delete, reorder, upload, download and file
\* delete on it, and no list response to that user holds the todo.
C19_AdminIsUnrelatedUser ==
    \A p \in Procs :
        (/\ req[p].op # "none"
         /\ req[p].pc = "done"
         /\ UserRow(req[p].user).role = "ADMIN")
        => LET r == req[p]
           IN  /\ (r.op \in {"get", "update", "delete"} /\ ~CanAccess(r.user, r.id))
                     => r.resp.status = 404
               /\ (r.op = "reorder"
                     /\ \E i \in 1..Len(r.arg.items) : ~CanAccess(r.user, r.arg.items[i].id))
                     => r.resp.status = 403
               /\ (r.op = "upload" /\ ~CanAccess(r.user, r.id)) => r.resp.status = 404
               /\ (r.op \in {"download", "fileDelete"} /\ ~CanAccessFile(r.user, r.id))
                     => r.resp.status = 404
               /\ r.op = "list" =>
                     \A t \in ReturnedIds(r.resp) : CanAccess(r.user, t)

\* C20: the step in which an admin's delete of user X succeeds leaves no
\* todo whose createdById or assignedToId is X and no file row of a todo
\* that had; and after every step each todo's createdById and assignedToId
\* name existing users.
C20_UserDeleteCascades ==
    [][/\ \A p \in Procs :
             (FinishStep(p, "deleteUser") /\ req'[p].resp.status = 200) =>
                 LET x == req'[p].arg.id
                 IN  /\ x \in UserIds /\ ~users'[x].exists
                     /\ \A t \in TodoIds :
                           todos'[t].exists =>
                               todos'[t].createdById # x /\ todos'[t].assignedToId # x
                     /\ \A f \in FileIds :
                           (/\ files[f].exists
                            /\ TodoRow(files[f].todoId).exists
                            /\ x \in {TodoRow(files[f].todoId).createdById,
                                      TodoRow(files[f].todoId).assignedToId})
                           => ~files'[f].exists
       /\ \A t \in TodoIds :
             todos'[t].exists =>
                 /\ todos'[t].createdById \in UserIds
                 /\ users'[todos'[t].createdById].exists
                 /\ todos'[t].assignedToId \in UserIds
                 /\ users'[todos'[t].assignedToId].exists
      ]_vars

\* jane was deleted after john had created a second todo assigned to her
\* with a file: the todo and the row of its file are gone.
C20_Witness ==
    \E p, q \in Procs :
        /\ req[p].op = "deleteUser"
        /\ req[p].resp.status = 200
        /\ ~UserRow("jane").exists
        /\ req[q].op = "create"
        /\ req[q].pc = "done"
        /\ req[q].resp.status = 201
        /\ req[q].id = 2
        /\ req[q].arg.names # {}
        /\ ~TodoRow(2).exists
        /\ \A f \in req[q].arg.names : ~files[f].exists

\* C21: after every step no two user rows have the same email; and a
\* register call whose email a user has when the call ends is refused and
\* writes no user row.
C21_EmailUnique ==
    [][/\ \A a, b \in UserIds :
             (a # b /\ users'[a].exists /\ users'[b].exists) =>
                 users'[a].email # users'[b].email
       /\ \A p \in Procs :
             (/\ FinishStep(p, "register")
              /\ \E u \in UserIds : users[u].exists /\ users[u].email = req'[p].arg.email)
             => /\ req'[p].resp.status # 201
                /\ users' = users
      ]_vars

\* Two registrations with the same email both passed the lookup; the second
\* write was refused.
C21_Witness ==
    \E p, q \in Procs :
        /\ p # q
        /\ req[p].op = "register" /\ req[p].pc = "done" /\ req[p].resp.status = 201
        /\ req[q].op = "register" /\ req[q].pc = "done" /\ req[q].resp = ServerError
        /\ req[p].arg.email = req[q].arg.email
        /\ Cardinality({u \in UserIds : users[u].exists /\ users[u].email = req[q].arg.email}) = 1

\* C22: a status change of a user writes that user's status and nothing
\* else: no other user field, no other user, no todo and no file row
\* changes; and whatever the status of the users, a get by the creator or
\* the assignee of a todo returns it and their lists hold it under the
\* creator-or-assignee rule of the list's type.
C22_DisableChangesOnlyStatus ==
    [][\A p \in Procs :
          /\ FinishStep(p, "setStatus") =>
                LET id == req'[p].arg.id
                IN  /\ todos' = todos
                    /\ files' = files
                    /\ \A o \in UserIds \ {id} : users'[o] = users[o]
                    /\ users'[id] = IF req'[p].resp.status = 200
                                    THEN [users[id] EXCEPT !.status = req'[p].arg.status]
                                    ELSE users[id]
          /\ (FinishStep(p, "get") /\ CanAccess(req'[p].user, req'[p].id)) =>
                req'[p].resp = [status |-> 200,
                                todo |-> WithFiles(req'[p].id, TodoRow(req'[p].id))]
          /\ FinishStep(p, "list") =>
                ReturnedIds(req'[p].resp) =
                    {t \in ExistingTodos :
                        ScopeHolds(todos[t], req'[p].user, req'[p].arg.type)}
      ]_vars

\* jane, the assignee, has been disabled and has then read her todo, which
\* is still assigned to her.
C22_Witness ==
    \E p \in Procs :
        /\ req[p].op = "get"
        /\ req[p].user = "jane"
        /\ UserRow("jane").status = "DISABLED"
        /\ req[p].resp.status = 200
        /\ req[p].resp.todo.row.assignedToId = "jane"
        /\ TodoRow(req[p].id) = SeededRow("john", "jane", 1)

\* C23: the todos of a list response are the rows as they are now, in order
\* ascending and, where order is equal, createdAt descending; so after a
\* reorder that gives T1 a higher order than T2 the list has T2 before T1.
C23_ListSortedByOrder ==
    \A p \in Procs :
        (req[p].op = "list" /\ req[p].pc = "done") =>
            LET found == req[p].resp.todos
            IN  /\ \A i \in 1..Len(found) : found[i].row = TodoRow(found[i].id)
                /\ \A i, j \in 1..Len(found) :
                      i < j =>
                          \/ found[i].row.order < found[j].row.order
                          \/ /\ found[i].row.order = found[j].row.order
                             /\ found[i].row.createdAt > found[j].row.createdAt

\* After a reorder that set todo 1 to the highest order and todo 2 to the
\* lowest, and one that had set them the other way round, the list has todo
\* 2 before todo 1.
C23_Witness ==
    \E p \in Procs :
        /\ req[p].op = "list"
        /\ req[p].pc = "done"
        /\ TodoRow(1).order = MaxOrder
        /\ TodoRow(2).order = 0
        /\ Len(req[p].resp.todos) >= 2
        /\ \E i, j \in 1..Len(req[p].resp.todos) :
              i < j /\ req[p].resp.todos[i].id = 2 /\ req[p].resp.todos[j].id = 1

\* The ids of a list of files, and whether none of them is there twice.
Listed(found) == {found[i] : i \in 1..Len(found)}
EachOnce(found) == \A i, j \in 1..Len(found) : found[i] = found[j] => i = j

\* C24: the list of a todo's files asked by U answers with that todo's file
\* records iff U is the todo's creator or assignee, and with the 404 of a
\* missing todo otherwise; the list of U's files holds exactly the records
\* whose todo has U as creator or assignee, each once.
C24_FileListsFollowTodoAccess ==
    \A p \in Procs :
        LET r == req[p]
        IN  /\ (r.op = "filesForTodo" /\ r.pc = "done") =>
                  IF CanAccess(r.user, r.id)
                  THEN /\ r.resp.status = 200
                       /\ Listed(r.resp.files) = FilesOf(r.id)
                       /\ EachOnce(r.resp.files)
                  ELSE r.resp = NotFoundOrDenied
            /\ (r.op = "userFiles" /\ r.pc = "done") =>
                  /\ r.resp.status = 200
                  /\ Listed(r.resp.files) = {f \in FileIds : CanAccessFile(r.user, f)}
                  /\ EachOnce(r.resp.files)

\* jane asks for her files while each todo has one file: she gets the file
\* of the todo assigned to her and not the file of the other todo.
C24_Witness ==
    /\ req[1].op = "userFiles"
    /\ req[1].pc = "done"
    /\ req[1].user = "jane"
    /\ \E f, g \in FileIds :
          /\ FileRow(f).exists /\ FileRow(f).todoId = 1
          /\ FileRow(g).exists /\ FileRow(g).todoId = 2
          /\ req[1].resp.files = <<f>>

\* The routes of the users router that are for administrators, and those
\* that are for the user named in the path or an administrator.
AdminOps == {"listUsers", "setStatus", "deleteUser"}
SelfOps == {"getUser", "updateProfile", "password", "profilePicture"}

\* C25: list users, set status and delete user succeed only for a caller of
\* role ADMIN; get user, update profile, change password and profile picture
\* for user X succeed only when the caller is X or has role ADMIN; a call
\* that is not permitted gets 403 and leaves every user record as it was,
\* and no other step of these routes changes a user record.
C25_UsersRoutesAuthorised ==
    [][/\ \A p \in Procs, op \in AdminOps :
             FinishStep(p, op) =>
                 LET r == req'[p]
                     admin == users[r.user].role = "ADMIN"
                 IN  /\ r.resp.status = 200 => admin
                     /\ ~admin => r.resp.status = 403 /\ users' = users
       /\ \A q \in Procs, sop \in SelfOps :
             FinishStep(q, sop) =>
                 LET s == req'[q]
                     allowed == s.user = s.arg.id \/ users[s.user].role = "ADMIN"
                 IN  /\ s.resp.status = 200 => allowed
                     /\ ~allowed => s.resp.status = 403 /\ users' = users
       /\ users' # users =>
             \E w \in Procs, wop \in AdminOps \cup SelfOps :
                 FinishStep(w, wop) /\ req'[w].resp.status = 200
      ]_vars

\* john, who has changed his own name, is refused the change of jane's
\* profile, and jane's record is the seeded one.
C25_Witness ==
    /\ req[1].op = "updateProfile"
    /\ req[1].pc = "done"
    /\ req[1].user = "john"
    /\ req[1].arg.id = "jane"
    /\ req[1].resp = AccessDenied
    /\ UserRow("john").name = "Renamed"
    /\ UserRow("jane") = SeedUsers["jane"]

\* C26: every todo row that the write of an update or of a reorder changes
\* is, at the moment of that write, a todo whose creator or assignee is the
\* caller.
C26_WriteNeedsAccessAtCommit ==
    [][\A p \in Procs :
          (req[p].pc \in {"update_write", "reorder_tx"} /\ req'[p] # req[p]) =>
              \A t \in TodoIds : todos'[t] # todos[t] => CanAccess(req[p].user, t)
      ]_vars

\* C27: an update that ends with 404 (no such todo for the caller) or 400
\* (assignee missing or DISABLED) has changed no field of any todo, the
\* other fields its body supplied included: its last step changes no todo
\* and no file row, and no step of an update before its write changes one.
C27_RefusedUpdateWritesNothing ==
    [][\A p \in Procs :
          (req'[p].op = "update" /\ req'[p] # req[p]) =>
              /\ (req'[p].pc = "done" /\ req'[p].resp.status \in {400, 404}) =>
                    todos' = todos /\ files' = files
              /\ req[p].pc # "update_write" => todos' = todos /\ files' = files
      ]_vars

\* jane's update of her todo with a new title, a new status and a DISABLED
\* assignee got 400, and the todo is the seeded row.
C27_Witness ==
    /\ req[1].op = "update"
    /\ req[1].pc = "done"
    /\ req[1].user = "jane"
    /\ req[1].id = 1
    /\ "assignedToId" \in DOMAIN req[1].arg.body
    /\ req[1].arg.body.assignedToId \in UserIds
    /\ UserRow(req[1].arg.body.assignedToId).status = "DISABLED"
    /\ req[1].arg.body.title = <<"u">>
    /\ req[1].resp = InvalidAssignee
    /\ TodoRow(1) = SeededRow("john", "jane", 1)

\* C28: no step changes the createdById of a todo; a get or a delete of a
\* todo by its creator succeeds, whoever the todo is assigned to; and after
\* a caller's update has assigned the todo to another user, the caller is
\* still creator or assignee of it iff the caller created it.
C28_CreatorIsFixed ==
    [][/\ \A t \in TodoIds :
             (todos[t].exists /\ todos'[t].exists) =>
                 todos'[t].createdById = todos[t].createdById
       /\ \A p \in Procs :
             (/\ FinishStep(p, "get") \/ FinishStep(p, "delete")
              /\ todos[req'[p].id].exists
              /\ todos[req'[p].id].createdById = req'[p].user)
             => /\ req'[p].resp.status = 200
                /\ req'[p].op = "delete" => ~todos'[req'[p].id].exists
       /\ \A q \in Procs :
             (/\ FinishStep(q, "update")
              /\ req'[q].resp.status = 200
              /\ "assignedToId" \in DOMAIN req'[q].arg.data
              /\ req'[q].arg.data.assignedToId # req'[q].user)
             => /\ todos'[req'[q].id].assignedToId # req'[q].user
                /\ (req'[q].user \in {todos'[req'[q].id].createdById,
                                      todos'[req'[q].id].assignedToId})
                       <=> todos[req'[q].id].createdById = req'[q].user
      ]_vars

\* jane, who had assigned john's todo to the admin, asks for it and gets
\* 404; john is still its creator.
C28_Witness ==
    /\ req[1].op = "get"
    /\ req[1].pc = "done"
    /\ req[1].user = "jane"
    /\ req[1].resp = NotFoundOrDenied
    /\ TodoRow(1).exists
    /\ TodoRow(1).assignedToId = "admin"
    /\ TodoRow(1).createdById = "john"

\* C29: a login answers with a token only for a user who is not DISABLED,
\* and a login that does not succeed, whether the email is unknown, the
\* password wrong or the account DISABLED, gets the one response "Invalid
\* credentials", so that the response tells nothing about the account.
C29_LoginRevealsNothing ==
    \A p \in Procs :
        (req[p].op = "login" /\ req[p].pc = "done") =>
            LET r == req[p]
                u == FindUserByEmail(r.arg.body.email)
            IN  /\ r.resp.status = 200 =>
                      /\ u # GhostUser
                      /\ r.resp.token = SignToken(u)
                      /\ users[u].status # "DISABLED"
                /\ r.resp.status # 200 => r.resp = InvalidCredentials

\* C30: in every state of the browser in which no redirect is under way, a
\* stored user and a context user that is not null each come with a stored
\* token of that same user.
C30_UserImpliesOwnToken ==
    ~client.leaving =>
        /\ client.storedUser # Absent => client.token = SignToken(client.storedUser)
        /\ client.ctxUser # Null => client.token = SignToken(client.ctxUser)

====
